---- MODULE Spec2Model ----
(***************************************************************************)
(* Model of the france-schools-map data pipeline: the incremental merge    *)
(* store (save_and_merge), the paginated fetcher (fetch_paginated_data),   *)
(* the most-recent-wins reconciliation passes of the download scripts, the *)
(* directory join and deduplication of merge_datasets.merge_data, the      *)
(* election downloads and merge of download_political_data, the directory  *)
(* filter of download_annuaire and the write of the store file.            *)
(*                                                                         *)
(* Python values are modelled as follows.                                  *)
(*   - None is the string "None"; a key is falsy when it is None or "".    *)
(*   - A dict is a sequence of [key, value] entries with distinct keys, in *)
(*     insertion order (Python dicts keep insertion order).                *)
(*   - A value that may be missing (dict.get(key) of an absent key, a key   *)
(*     never assigned) is a sequence: <<>> when missing, <<v>> when v.     *)
(*   - A text that the code searches, compares or measures is a sequence   *)
(*     of characters; year strings are sequences of digit values, so that  *)
(*     the order of the digits is the order of their code points.          *)
(***************************************************************************)
EXTENDS Integers, Sequences, FiniteSets, TLC

VARIABLES
    \* save_and_merge (one store file of one script)
    module,            \* the script whose save_and_merge is running
    persisted,         \* the records held by the store file
    existing_records,  \* what the last call loaded from the file
    new_records,       \* the batch of the last call
    combined,          \* what the last call returned
    calls,             \* 0: never called, 1: batch applied once, 2: applied twice in a row
    once,              \* the file's contents after the first application of the batch
    file,              \* the text of the store file: Nothing while it does not exist
    wpc,               \* the write of the file: "idle", "dump" (open, being written), "stopped"
    \* a most-recent-wins download pass
    dataset,           \* the download function that is running
    records,           \* the rows handed back by fetch_paginated_data
    idx,               \* position of the reconciliation loop in records
    school_records,    \* the dict the loop fills
    dpc,               \* "fetch", "reconcile", "save", "done"
    \* fetch_paginated_data
    limit, offset, all_records,
    fpc,               \* "loop", "done"
    requests,          \* offsets of the requests sent so far
    responses,         \* the successful responses, in order: [records, total_count]
    failed,            \* a request raised a RequestException
    \* merge_data
    annuaire_records,  \* rows of annuaire_pays_loire.json
    tables,            \* the lookup dictionaries by UAI built from the other files
    merged_schools,    \* the school objects built by the join loop
    schools_json,      \* the list written to schools.json (written iff mpc = "done")
    mpc,               \* "start", "done", "crashed"
    \* download_political_data
    election_files,    \* the rows of the municipal, presidential and legislative CSV files
    mayors,            \* mayors.json
    insee_mapping,     \* insee_mapping.json
    municipal,         \* municipal_2020.json
    presidential,      \* presidential_2022.json
    legislative,       \* legislative_2024.json
    leg_candidates,    \* the sorted `candidates` list behind each stored legislative list
    political_data,    \* political_data.json (written iff ppc = "done")
    ppc                \* the step main() is about to run, then "done" or "crashed"

storeVars == <<module, persisted, existing_records, new_records, combined, calls, once, file, wpc>>
downloadVars == <<dataset, records, idx, school_records, dpc>>
fetchVars == <<limit, offset, all_records, fpc, requests, responses, failed>>
mergeVars == <<annuaire_records, tables, merged_schools, schools_json, mpc>>
polVars == <<election_files, mayors, insee_mapping, municipal, presidential, legislative,
             leg_candidates, political_data, ppc>>
vars == <<storeVars, downloadVars, fetchVars, mergeVars, polVars>>

None == "None"

\* Python truthiness of a key: `if key:` / `if uai:` / `if not uai:`
Truthy(k) == k # None /\ k # ""

SeqsUpTo(S, n) == UNION {[1..m -> S] : m \in 0..n}

(***************************************************************************)
(* Python dict, insertion ordered.                                         *)
(***************************************************************************)
DictHas(d, k) == \E i \in DOMAIN d : d[i].key = k

DictGet(d, k) == d[CHOOSE i \in DOMAIN d : d[i].key = k].value

\* d[k] = v
DictSet(d, k, v) ==
    IF DictHas(d, k)
    THEN [i \in DOMAIN d |-> IF d[i].key = k THEN [key |-> k, value |-> v] ELSE d[i]]
    ELSE Append(d, [key |-> k, value |-> v])

\* list(d.values())
DictValues(d) == [i \in DOMAIN d |-> d[i].value]

\* d.get(key) of a key the dict lacks, and the value v of a key it has
Nothing == <<>>

Some(v) == <<v>>

\* d.get(key, '') for a text value
OrEmpty(opt) == IF opt = Nothing THEN <<>> ELSE opt[1]

\* `a or b` for two numbers that may be missing
OrElse(a, b) == IF a # Nothing /\ a # Some(0) THEN a ELSE b

\* the lookup dictionaries when every file other than the directory is []
EmptyTables ==
    [ ips_ecoles |-> <<>>, ips_colleges |-> <<>>, ips_lycees |-> <<>>,
      effectifs_ecoles |-> <<>>, effectifs_colleges |-> <<>>, effectifs_lycees |-> <<>>,
      brevet_results |-> <<>>, bac_results |-> <<>> ]

(***************************************************************************)
(* Records.  flat_key is record.get(key_field); nested_key is              *)
(* record.get('record', {}).get('fields', {}).get(key_field); year is the  *)
(* recency field of the row (session, annee, rentree_scolaire), '' when    *)
(* the row lacks it; id tells apart rows that agree on all of these.       *)
(***************************************************************************)
Scripts == {"download_data", "download_enrollment_data", "download_language_data"}

\* the key save_and_merge reads from a record
KeyOf(mod, r) ==
    IF mod = "download_language_data"
    THEN IF Truthy(r.flat_key) THEN r.flat_key ELSE r.nested_key
    ELSE r.nested_key

RECURSIVE IndexByKey(_, _, _)
\* for record in recs: key = ...; if key: by_key[key] = record
IndexByKey(mod, by_key, recs) ==
    IF recs = <<>> THEN by_key
    ELSE LET r == Head(recs)
             k == KeyOf(mod, r)
         IN IndexByKey(mod, IF Truthy(k) THEN DictSet(by_key, k, r) ELSE by_key, Tail(recs))

\* save_and_merge that forgets the file: only the batch is written
SaveAndMergeNoLoad(mod, existing, batch) ==
    DictValues(IndexByKey(mod, <<>>, batch))

\* save_and_merge that extends the file with the batch instead of merging by key
SaveAndMergeExtend(mod, existing, batch) ==
    DictValues(IndexByKey(mod, <<>>, existing)) \o batch

\* the list save_and_merge dumps to the file and returns
SaveAndMerge(mod, existing, batch) ==
    DictValues(IndexByKey(mod, IndexByKey(mod, <<>>, existing), batch))

\* a chunk of JSON text: the opening bracket, a record, the closing bracket
Token(tok, rec) == [tok |-> tok, rec |-> rec]

\* json.dump(combined, f, ...): the chunks written to the file, in order
Dump(recs) ==
    <<Token("[", Nothing)>> \o [i \in DOMAIN recs |-> Token("rec", Some(recs[i]))] \o <<Token("]", Nothing)>>

\* whether json.load accepts the text
Parseable(text) ==
    /\ Len(text) >= 2
    /\ text[1].tok = "[" /\ text[Len(text)].tok = "]"
    /\ \A i \in 2..(Len(text) - 1) : text[i].tok = "rec"

\* json.load of a well-formed text
Parse(text) == [i \in 1..(Len(text) - 2) |-> text[i + 1].rec[1]]

\* load_or_create(filename): [] when the file does not exist
load_or_create(f) == IF f = Nothing THEN <<>> ELSE Parse(f[1])

(***************************************************************************)
(* The incremental merge store: repeated calls of save_and_merge on one    *)
(* store file.  The file does not exist before the first call, so          *)
(* load_or_create starts from [].                                          *)
(***************************************************************************)
MaxBatch == 2

\* <<record.get(key_field), record['record']['fields'].get(key_field), id>>:
\* a record without any key, two API records with key A, one with key B, an
\* aggregated (flat) record with key A, and a record carrying both
StoreShapes ==
    { <<None, None, 1>>, <<None, "A", 1>>, <<None, "A", 2>>, <<None, "B", 1>>,
      <<"A", None, 1>>, <<"A", "B", 2>> }

StoreRecords ==
    { [flat_key |-> s[1], nested_key |-> s[2], year |-> <<>>, id |-> s[3]] :
          s \in StoreShapes }

\* load_or_create(filename) when the file does not exist
load_or_create_missing == <<>>

StoreIdle ==
    /\ module = "download_data"
    /\ persisted = load_or_create_missing
    /\ existing_records = <<>>
    /\ new_records = <<>>
    /\ combined = <<>>
    /\ calls = 0
    /\ once = <<>>
    /\ file = Nothing
    /\ wpc = "idle"

DownloadIdle ==
    /\ dataset = "none"
    /\ records = <<>>
    /\ idx = 0
    /\ school_records = <<>>
    /\ dpc = "done"

FetchIdle ==
    /\ limit = 1
    /\ offset = 0
    /\ all_records = <<>>
    /\ fpc = "done"
    /\ requests = <<>>
    /\ responses = <<>>
    /\ failed = FALSE

MergeIdle ==
    /\ annuaire_records = <<>>
    /\ tables = EmptyTables
    /\ merged_schools = <<>>
    /\ schools_json = <<>>
    /\ mpc = "start"

NoElectionFiles == [municipal |-> <<>>, presidential |-> <<>>, legislative |-> <<>>]

PolIdle ==
    /\ election_files = NoElectionFiles
    /\ mayors = <<>>
    /\ insee_mapping = <<>>
    /\ municipal = <<>>
    /\ presidential = <<>>
    /\ legislative = <<>>
    /\ leg_candidates = <<>>
    /\ political_data = <<>>
    /\ ppc = "done"

InitStore ==
    /\ module \in Scripts
    /\ persisted = load_or_create_missing
    /\ existing_records = <<>>
    /\ new_records = <<>>
    /\ combined = <<>>
    /\ calls = 0
    /\ once = <<>>
    /\ file = Nothing
    /\ wpc = "idle"
    /\ DownloadIdle /\ FetchIdle /\ MergeIdle /\ PolIdle

\* save_and_merge(filename, batch, key_field) with a batch not applied before
SaveNewBatch ==
    \E batch \in SeqsUpTo(StoreRecords, MaxBatch) :
        /\ existing_records' = persisted
        /\ new_records' = batch
        /\ persisted' = SaveAndMerge(module, persisted, batch)
        /\ combined' = persisted'
        /\ once' = persisted'
        /\ file' = Some(Dump(persisted'))
        /\ calls' = 1
        /\ UNCHANGED <<module, wpc, downloadVars, fetchVars, mergeVars, polVars>>

\* the same call once more, right after the first
SaveSameBatchAgain ==
    /\ calls = 1
    /\ existing_records' = persisted
    /\ persisted' = SaveAndMerge(module, persisted, new_records)
    /\ combined' = persisted'
    /\ file' = Some(Dump(persisted'))
    /\ calls' = 2
    /\ UNCHANGED <<module, new_records, once, wpc, downloadVars, fetchVars, mergeVars, polVars>>

NextStore == SaveNewBatch \/ SaveSameBatchAgain

Spec == InitStore /\ [][NextStore]_vars

KeysOfBatch(mod, batch) == {KeyOf(mod, batch[i]) : i \in DOMAIN batch}

InSeq(x, s) == \E i \in DOMAIN s : s[i] = x

\* C1: after save_and_merge, every record of the previous store whose key is
\* non-empty and does not occur in the batch is still in the persisted store,
\* unchanged, and the persisted store is what the call returned.
C1_UntouchedKeysPreserved ==
    calls > 0 =>
        /\ combined = persisted
        /\ \A i \in DOMAIN existing_records :
              LET r == existing_records[i]
                  k == KeyOf(module, r)
              IN (Truthy(k) /\ k \notin KeysOfBatch(module, new_records))
                     => InSeq(r, persisted)

\* a call that found a non-empty store and a batch that leaves one of its keys alone
C1_Witness ==
    /\ calls = 1
    /\ \E i \in DOMAIN existing_records :
          /\ KeyOf(module, existing_records[i]) \notin KeysOfBatch(module, new_records)
          /\ InSeq(existing_records[i], persisted)
    /\ \E j \in DOMAIN new_records : Truthy(KeyOf(module, new_records[j]))

\* C3: save_and_merge is idempotent: the same batch applied twice in a row
\* leaves the same persisted records, in the same order, as applied once.
C3_Idempotent == calls = 2 => persisted = once

\* a batch applied twice that overwrote a record of a non-empty store and added one
C3_Witness ==
    /\ calls = 2
    /\ Len(persisted) = 2
    /\ \E j \in DOMAIN new_records : Truthy(KeyOf(module, new_records[j]))
    /\ module = "download_language_data"

(***************************************************************************)
(* Most-recent-wins download passes: download_brevet_results,              *)
(* download_bac_results, download_ecoles_effectifs,                        *)
(* download_colleges_effectifs and download_lycees_effectifs.  Each takes  *)
(* the rows of fetch_paginated_data, keeps one row per school in a dict    *)
(* and hands the dict's values to its script's save_and_merge.             *)
(***************************************************************************)
MaxRows == 3

Datasets ==
    { "download_brevet_results", "download_bac_results",
      "download_ecoles_effectifs", "download_colleges_effectifs",
      "download_lycees_effectifs" }

\* the script that defines the download function, hence its save_and_merge
ScriptOf(ds) ==
    IF ds \in {"download_brevet_results", "download_bac_results"}
    THEN "download_data"
    ELSE "download_enrollment_data"

RECURSIVE StrGT(_, _)
\* a > b on Python strings: by code point at the first difference, a proper
\* prefix being the smaller
StrGT(a, b) ==
    IF a = <<>> THEN FALSE
    ELSE IF b = <<>> THEN TRUE
    ELSE IF Head(a) # Head(b) THEN Head(a) > Head(b)
    ELSE StrGT(Tail(a), Tail(b))

\* fields.get('session', ''): "", "2022", "2023"
Years == { <<>>, <<2, 0, 2, 2>>, <<2, 0, 2, 3>> }

\* <<uai, year, id>> of the API rows a source may return
FetchedShapes ==
    { <<"A", <<2, 0, 2, 2>>, 1>>, <<"A", <<2, 0, 2, 3>>, 1>>, <<"A", <<2, 0, 2, 3>>, 2>>,
      <<"A", <<>>, 1>>, <<"B", <<2, 0, 2, 2>>, 1>>, <<None, <<2, 0, 2, 3>>, 1>> }

FetchedRows ==
    { [flat_key |-> None, nested_key |-> s[1], year |-> s[2], id |-> s[3]] :
          s \in FetchedShapes }

\* what the loop stores for a row: the API record itself, or for lycees the
\* aggregated dict {'uai', 'name', 'rentree', 'total_students'}
StoredFor(ds, row) ==
    IF ds = "download_lycees_effectifs"
    THEN [flat_key |-> row.nested_key, nested_key |-> None, year |-> row.year, id |-> row.id]
    ELSE row

\* a loop body that stores every keyed row, whatever its year
KeepLast(ds, d, row) ==
    IF Truthy(row.nested_key) THEN DictSet(d, row.nested_key, StoredFor(ds, row)) ELSE d

\* a loop body in which a row of the held year replaces the held row
KeepMostRecentOrEqual(ds, d, row) ==
    LET uai == row.nested_key
        session == row.year
    IN IF ~Truthy(uai) THEN d
       ELSE IF ~DictHas(d, uai) \/ ~StrGT(DictGet(d, uai).year, session)
            THEN DictSet(d, uai, StoredFor(ds, row))
            ELSE d

\* one iteration of `for record in records:` of a download function
KeepMostRecent(ds, d, row) ==
    LET uai == row.nested_key
        session == row.year
    IN IF ~Truthy(uai) THEN d
       ELSE IF ~DictHas(d, uai) \/ StrGT(session, DictGet(d, uai).year)
            THEN DictSet(d, uai, StoredFor(ds, row))
            ELSE d

InitDownload ==
    /\ dataset \in Datasets
    /\ records = <<>>
    /\ idx = 0
    /\ school_records = <<>>
    /\ dpc = "fetch"
    /\ StoreIdle /\ FetchIdle /\ MergeIdle /\ PolIdle

\* records = fetch_paginated_data(...); school_records = {}
DFetch ==
    /\ dpc = "fetch"
    /\ \E rows \in SeqsUpTo(FetchedRows, MaxRows) : records' = rows
    /\ idx' = 0
    /\ school_records' = <<>>
    /\ dpc' = "reconcile"
    /\ UNCHANGED <<dataset, storeVars, fetchVars, mergeVars, polVars>>

\* one iteration of the reconciliation loop
DReconcileRow ==
    /\ dpc = "reconcile"
    /\ idx < Len(records)
    /\ school_records' = KeepMostRecent(dataset, school_records, records[idx + 1])
    /\ idx' = idx + 1
    /\ UNCHANGED <<dataset, records, dpc, storeVars, fetchVars, mergeVars, polVars>>

\* the loop is over: latest_records = list(school_records.values())
DLoopEnd ==
    /\ dpc = "reconcile"
    /\ idx = Len(records)
    /\ dpc' = "save"
    /\ UNCHANGED <<dataset, records, idx, school_records, storeVars, fetchVars, mergeVars, polVars>>

\* combined = save_and_merge(<file>, latest_records, key_field=...)
DSave ==
    /\ dpc = "save"
    /\ module' = ScriptOf(dataset)
    /\ existing_records' = persisted
    /\ new_records' = DictValues(school_records)
    /\ persisted' = SaveAndMerge(ScriptOf(dataset), persisted, DictValues(school_records))
    /\ combined' = persisted'
    /\ once' = persisted'
    /\ file' = Some(Dump(persisted'))
    /\ calls' = 1
    /\ dpc' = "done"
    /\ UNCHANGED <<dataset, records, idx, school_records, wpc, fetchVars, mergeVars, polVars>>

NextDownload == DFetch \/ DReconcileRow \/ DLoopEnd \/ DSave

SpecDownload == InitDownload /\ [][NextDownload]_vars

\* C2: every UAI of the batch download_lycees_effectifs hands to
\* save_and_merge is a key of the persisted and returned store, holding the
\* batch's record for that UAI.
C2_LyceeBatchPersisted ==
    (dataset = "download_lycees_effectifs" /\ dpc = "done") =>
        /\ combined = persisted
        /\ \A j \in DOMAIN new_records :
              \E p \in DOMAIN persisted :
                  /\ persisted[p] = new_records[j]
                  /\ persisted[p].flat_key = new_records[j].flat_key

\* C4: at the end of a most-recent-wins pass, every keyed row that was fetched
\* has an entry under its key, and the year of the retained row is >= (as
\* strings) the year of every fetched row with that key.
C4_RetainedIsMostRecent ==
    dpc \in {"save", "done"} =>
        \A i \in DOMAIN records :
            Truthy(records[i].nested_key) =>
                /\ DictHas(school_records, records[i].nested_key)
                /\ ~StrGT(records[i].year, DictGet(school_records, records[i].nested_key).year)

\* a pass over three rows of one school in which the newest year came second
C4_Witness ==
    /\ dpc = "save"
    /\ Len(records) = 3
    /\ \A i \in DOMAIN records : records[i].nested_key = "A"
    /\ StrGT(records[2].year, records[1].year)
    /\ StrGT(records[2].year, records[3].year)
    /\ DictGet(school_records, "A").year = records[2].year

(***************************************************************************)
(* fetch_paginated_data: one call.  Each pass of `while True` sends one    *)
(* request.  The source answers as it likes: a page of 0..limit rows with  *)
(* a total_count (or without one), or a transport error.  The rows of the  *)
(* page answering request n are <<n, 1>>, <<n, 2>>, ...                    *)
(***************************************************************************)
MaxLimit == 3

MaxTotal == 5

\* what requests.get / raise_for_status raise on a transport failure
TransportErrors == {"ConnectionError", "Timeout", "HTTPError"}

\* an except clause that catches connection errors only
CaughtConnectionOnly(e) == e = "ConnectionError"

\* except requests.exceptions.RequestException: ConnectionError, Timeout and
\* HTTPError are all subclasses of it
Caught(e) == e \in {"ConnectionError", "Timeout", "HTTPError"}

Page(n, req) == [i \in 1..n |-> <<req, i>>]

\* data.get('total_count', 0)
TotalCount(data) == IF data.has_total THEN data.total_count ELSE 0

Responses(lim, req) ==
    { [records |-> Page(n, req), has_total |-> TRUE, total_count |-> t] :
          n \in 0..lim, t \in 0..MaxTotal }
    \cup { [records |-> Page(n, req), has_total |-> FALSE, total_count |-> 0] : n \in 0..lim }

\* a check that wants more rows than the reported total
GotAllStrict(all, data) == Len(all) > TotalCount(data)

\* if len(all_records) >= total_count: break
GotAll(all, data) == Len(all) >= TotalCount(data)

InitFetch ==
    /\ limit \in 1..MaxLimit
    /\ offset = 0
    /\ all_records = <<>>
    /\ fpc = "loop"
    /\ requests = <<>>
    /\ responses = <<>>
    /\ failed = FALSE
    /\ StoreIdle /\ DownloadIdle /\ MergeIdle /\ PolIdle

\* one pass of the loop in which the request succeeds
FetchPage ==
    /\ fpc = "loop"
    /\ \E data \in Responses(limit, Len(requests) + 1) :
          /\ requests' = Append(requests, offset)
          /\ responses' = Append(responses, data)
          /\ IF data.records = <<>>
             THEN /\ fpc' = "returned"
                  /\ UNCHANGED <<all_records, offset>>
             ELSE /\ all_records' = all_records \o data.records
                  /\ IF GotAll(all_records', data)
                     THEN fpc' = "returned" /\ offset' = offset
                     ELSE fpc' = "loop" /\ offset' = offset + limit
    /\ UNCHANGED <<limit, failed, storeVars, downloadVars, mergeVars, polVars>>

\* what the except clause does with an exception of the request
OnErrorRetry(e) == IF CaughtConnectionOnly(e) THEN "loop" ELSE "raised"

\* except RequestException: print; break -- then return all_records
OnError(e) == IF Caught(e) THEN "returned" ELSE "raised"

\* one pass of the loop in which requests.get or raise_for_status raises
FetchError ==
    /\ fpc = "loop"
    /\ \E e \in TransportErrors :
          /\ requests' = Append(requests, offset)
          /\ failed' = TRUE
          /\ fpc' = OnError(e)
    /\ UNCHANGED <<limit, offset, all_records, responses, storeVars, downloadVars, mergeVars, polVars>>

NextFetch == FetchPage \/ FetchError

SpecFetch == InitFetch /\ [][NextFetch]_vars

\* the loop keeps running until it breaks: a request is answered or times out
\* (timeout=30)
FairSpecFetch == SpecFetch /\ WF_vars(NextFetch)

RECURSIVE Concat(_)
Concat(pages) == IF pages = <<>> THEN <<>> ELSE Head(pages).records \o Concat(Tail(pages))

\* C5: once a page request has failed with a transport error, the call has
\* returned (not raised, not looping, so no retry and no further request: the
\* failed request is the last one sent) and what it returned is exactly the
\* rows of the pages fetched before the failure, in fetch order.
C5_FailSoft ==
    failed =>
        /\ fpc = "returned"
        /\ Len(requests) = Len(responses) + 1
        /\ all_records = Concat(responses)

\* a failure on the third request, after two pages with rows
C5_Witness ==
    /\ failed
    /\ Len(requests) = 3
    /\ Len(all_records) >= 3

\* number of rows accumulated after the k-th successful response
RECURSIVE Cumulative(_, _)
Cumulative(pages, k) == IF k = 0 THEN 0 ELSE Len(pages[k].records) + Cumulative(pages, k - 1)

\* the k-th response is empty or brings the cumulative count to its total_count
StopsAt(k) ==
    \/ responses[k].records = <<>>
    \/ Cumulative(responses, k) >= TotalCount(responses[k])

C6_Offsets == \A k \in DOMAIN requests : requests[k] = (k - 1) * limit

C6_StopsAtFirst ==
    /\ \A k \in DOMAIN responses :
          StopsAt(k) <=> (k = Len(responses) /\ fpc = "returned" /\ ~failed)
    /\ (fpc = "returned" /\ ~failed) => responses # <<>>

\* C6: fetch_paginated_data terminates for every source that reports a
\* finite total_count; it requests the offsets 0, limit, 2*limit, ... and
\* stops at the first page that is empty or after which the cumulative number
\* of rows is >= the reported total_count.
C6_Terminates ==
    /\ []C6_Offsets
    /\ []C6_StopsAtFirst
    /\ <>(fpc # "loop")

\* a call that returned after three pages without any failure
C6_Witness ==
    /\ fpc = "returned"
    /\ ~failed
    /\ Len(requests) = 3
    /\ requests[3] = 2 * limit
    /\ limit = 2

\* C28: the call never stops at a page that has rows and carries no
\* total_count: after such a page it sends the next request (it stops only at
\* a page with zero rows).
C28_NoTotalKeepsPaging ==
    \A k \in DOMAIN responses :
        (~responses[k].has_total /\ responses[k].records # <<>>) =>
            ~(k = Len(responses) /\ fpc = "returned" /\ ~failed)

(***************************************************************************)
(* merge_datasets.merge_data: the join of the directory with the side      *)
(* tables, the deduplication pass and the write of schools.json.  Texts    *)
(* are sequences of characters.                                            *)
(***************************************************************************)
MaxDirectory == 3

LowerChars ==
    << "a", "b", "c", "d", "e", "f", "g", "h", "i", "j", "k", "l", "m", "n", "o", "p",
       "q", "r", "s", "t", "u", "v", "w", "x", "y", "z", "é", "è", "ô" >>

UpperChars ==
    << "A", "B", "C", "D", "E", "F", "G", "H", "I", "J", "K", "L", "M", "N", "O", "P",
       "Q", "R", "S", "T", "U", "V", "W", "X", "Y", "Z", "É", "È", "Ô" >>

Chars == {LowerChars[i] : i \in DOMAIN LowerChars} \cup {UpperChars[i] : i \in DOMAIN UpperChars} \cup {" "}

UpperOf ==
    [c \in Chars |->
        IF \E j \in DOMAIN LowerChars : LowerChars[j] = c
        THEN UpperChars[CHOOSE j \in DOMAIN LowerChars : LowerChars[j] = c]
        ELSE c]

LowerOf ==
    [c \in Chars |->
        IF \E j \in DOMAIN UpperChars : UpperChars[j] = c
        THEN LowerChars[CHOOSE j \in DOMAIN UpperChars : UpperChars[j] = c]
        ELSE c]

\* str.upper()
Upper(s) == [i \in DOMAIN s |-> UpperOf[s[i]]]

\* str.lower()
Lower(s) == [i \in DOMAIN s |-> LowerOf[s[i]]]

\* sub in s
Contains(s, sub) ==
    \E k \in 0..(Len(s) - Len(sub)) : \A i \in DOMAIN sub : s[k + i] = sub[i]

\* categorize_school_type(fields)
categorize_school_type(fields) ==
    LET type_etab == fields.type_etablissement
        libelle_nature == fields.libelle_nature
    IN IF Contains(type_etab, <<"E", "c", "o", "l", "e">>)
          \/ Contains(Upper(libelle_nature), <<"E", "C", "O", "L", "E">>)
       THEN "Primaire"
       ELSE IF Contains(type_etab, <<"C", "o", "l", "l", "è", "g", "e">>)
               \/ Contains(Upper(libelle_nature), <<"C", "O", "L", "L", "E", "G", "E">>)
       THEN "Collège"
       ELSE IF Contains(type_etab, <<"L", "y", "c", "é", "e">>)
               \/ Contains(Upper(libelle_nature), <<"L", "Y", "C", "E", "E">>)
       THEN "Lycée"
       ELSE "Unknown"

\* `not lat`: None or 0.0 (coordinates are written as their JSON text)
TruthyCoord(x) == x # None /\ x # "0.0"

\* <<type_etablissement, libelle_nature, nom_etablissement>>
Establishments ==
    << << <<"E", "c", "o", "l", "e">>, <<>>, <<"J", "e", "a", "n", " ", "A">> >>,
       << <<>>, <<"C", "o", "l", "l", "e", "g", "e">>, <<"J", "e", "a", "n", " ", "B">> >>,
       << <<"L", "y", "c", "é", "e">>, <<>>, <<"S", "i", "t", "e", " ", "B">> >>,
       << <<"L", "y", "c", "é", "e">>, <<>>, <<"C", "a", "m", "p", "u", "s">> >>,
       << <<"E", "R", "E", "A">>, <<>>, <<"J", "e", "a", "n", " ", "Z", "a", "y">> >>,
       << <<"L", "y", "c", "é", "e">>, <<>>, <<"J", "o">> >> >>

Row(uai, lat, lon, e) ==
    [ uai |-> uai, latitude |-> lat, longitude |-> lon,
      type_etablissement |-> Establishments[e][1],
      libelle_nature |-> Establishments[e][2],
      nom_etablissement |-> Establishments[e][3],
      nombre_d_eleves |-> Nothing ]

\* the rows annuaire_pays_loire.json may hold: five establishments under one
\* UAI, two under another, rows without latitude, longitude or UAI
DirectoryRows ==
    { Row("U1", "47.2", "-1.5", e) : e \in 1..5 }
    \cup { Row("U2", "46.1", "-1.1", 1), Row("U2", "46.1", "-1.1", 3) }
    \cup { Row("U1", None, "-1.5", 6), Row("U1", "47.2", None, 6),
           Row(None, "47.2", "-1.5", 1) }

\* ips_data of a school: the entry of the IPS dictionary of its type
IpsData(school_type, uai) ==
    IF school_type = "Primaire" /\ DictHas(tables.ips_ecoles, uai)
    THEN Some(DictGet(tables.ips_ecoles, uai))
    ELSE IF school_type = "Collège" /\ DictHas(tables.ips_colleges, uai)
    THEN Some(DictGet(tables.ips_colleges, uai))
    ELSE IF school_type = "Lycée" /\ DictHas(tables.ips_lycees, uai)
    THEN Some(DictGet(tables.ips_lycees, uai))
    ELSE Nothing

\* school['ips'] = {'value': ..., 'year': ips_data.get('rentree_scolaire', '')}
IpsOf(school_type, uai) ==
    LET ips_data == IpsData(school_type, uai)
    IN IF ips_data = Nothing THEN Nothing
       ELSE Some([ value |-> IF school_type = "Lycée" THEN ips_data[1].ips_etab
                             ELSE OrElse(ips_data[1].ips, ips_data[1].ips_ensemble_gt_pro),
                   year |-> OrEmpty(ips_data[1].rentree_scolaire) ])

\* the enrollment entry of a school: student_count and enrollment_year as the
\* branch of its type reads them
EffectifsOf(school_type, uai) ==
    IF school_type = "Primaire" /\ DictHas(tables.effectifs_ecoles, uai)
    THEN LET effectifs_data == DictGet(tables.effectifs_ecoles, uai)
         IN Some([ student_count |-> effectifs_data.nombre_total_eleves,
                   enrollment_year |-> effectifs_data.rentree_scolaire ])
    ELSE IF school_type = "Collège" /\ DictHas(tables.effectifs_colleges, uai)
    THEN LET effectifs_data == DictGet(tables.effectifs_colleges, uai)
         IN Some([ student_count |-> effectifs_data.nombre_eleves_total,
                   enrollment_year |-> effectifs_data.rentree_scolaire ])
    ELSE IF school_type = "Lycée" /\ DictHas(tables.effectifs_lycees, uai)
    THEN LET effectifs_data == DictGet(tables.effectifs_lycees, uai)
         IN Some([ student_count |-> effectifs_data.total_students,
                   enrollment_year |-> effectifs_data.rentree ])
    ELSE Nothing

\* school['exam_results'] = {'type': ..., 'year': ...}
ExamResultsOf(school_type, uai) ==
    IF school_type = "Collège" /\ DictHas(tables.brevet_results, uai)
    THEN Some([ type |-> "Brevet",
                year |-> OrEmpty(DictGet(tables.brevet_results, uai).session) ])
    ELSE IF school_type = "Lycée" /\ DictHas(tables.bac_results, uai)
    THEN Some([ type |-> "Baccalauréat",
                year |-> OrEmpty(DictGet(tables.bac_results, uai).annee) ])
    ELSE Nothing

\* the school object built for a directory row (lines 187-310); a key the
\* code never assigns (ips, enrollment_year, exam_results) is missing
School(fields) ==
    LET school_type == categorize_school_type(fields)
        effectifs == EffectifsOf(school_type, fields.uai)
    IN [ uai |-> fields.uai,
         name |-> fields.nom_etablissement,
         type |-> school_type,
         latitude |-> fields.latitude,
         longitude |-> fields.longitude,
         student_count |-> IF effectifs = Nothing THEN fields.nombre_d_eleves
                           ELSE effectifs[1].student_count,
         enrollment_year |-> IF effectifs = Nothing THEN Nothing
                             ELSE effectifs[1].enrollment_year,
         ips |-> IpsOf(school_type, fields.uai),
         exam_results |-> ExamResultsOf(school_type, fields.uai) ]

RECURSIVE JoinLatOnly(_)
\* a join loop that skips a row only when its latitude is missing
JoinLatOnly(rows) ==
    IF rows = <<>> THEN <<>>
    ELSE LET fields == Head(rows)
         IN IF ~Truthy(fields.uai) \/ ~TruthyCoord(fields.latitude)
            THEN JoinLatOnly(Tail(rows))
            ELSE <<School(fields)>> \o JoinLatOnly(Tail(rows))

RECURSIVE Join(_)
\* `for record in annuaire_records:` ... merged_schools.append(school)
Join(rows) ==
    IF rows = <<>> THEN <<>>
    ELSE LET fields == Head(rows)
         IN IF ~Truthy(fields.uai) THEN Join(Tail(rows))
            ELSE IF ~TruthyCoord(fields.latitude) \/ ~TruthyCoord(fields.longitude)
                 THEN Join(Tail(rows))
            ELSE <<School(fields)>> \o Join(Tail(rows))

duplicate_keywords ==
    { <<"s", "i", "t", "e", " ">>, <<"c", "a", "m", "p", "u", "s">>, <<"p", "ô", "l", "e">>,
      <<"e", "s", "u", "p", "e", "c">>,
      <<"e", "n", "s", "e", "i", "g", "n", "e", "m", "e", "n", "t", " ", "s", "u", "p">> }

\* any(kw in name.lower() for kw in duplicate_keywords)
HasKeywords(name) == \E kw \in duplicate_keywords : Contains(Lower(name), kw)

\* a pass that keeps the first school met under each UAI
DedupKeepFirst(uai_dict, school) ==
    IF DictHas(uai_dict, school.uai) THEN uai_dict
    ELSE DictSet(uai_dict, school.uai, school)

\* a pass in which the later of two equally long names replaces the earlier
DedupLaterWinsTies(uai_dict, school) ==
    IF ~DictHas(uai_dict, school.uai) THEN DictSet(uai_dict, school.uai, school)
    ELSE LET existing == DictGet(uai_dict, school.uai)
         IN IF HasKeywords(school.name) /\ ~HasKeywords(existing.name) THEN uai_dict
            ELSE IF HasKeywords(existing.name) /\ ~HasKeywords(school.name)
                 THEN DictSet(uai_dict, school.uai, school)
            ELSE IF Len(school.name) <= Len(existing.name)
                 THEN DictSet(uai_dict, school.uai, school)
            ELSE uai_dict

\* one iteration of `for school in merged_schools:` (lines 329-352)
DedupStep(uai_dict, school) ==
    IF ~DictHas(uai_dict, school.uai) THEN DictSet(uai_dict, school.uai, school)
    ELSE LET existing == DictGet(uai_dict, school.uai)
             existing_has_keywords == HasKeywords(existing.name)
             current_has_keywords == HasKeywords(school.name)
         IN IF current_has_keywords /\ ~existing_has_keywords THEN uai_dict
            ELSE IF existing_has_keywords /\ ~current_has_keywords
                 THEN DictSet(uai_dict, school.uai, school)
            ELSE IF Len(school.name) < Len(existing.name)
                 THEN DictSet(uai_dict, school.uai, school)
            ELSE uai_dict

RECURSIVE DedupLoop(_, _)
DedupLoop(uai_dict, schools) ==
    IF schools = <<>> THEN uai_dict
    ELSE DedupLoop(DedupStep(uai_dict, Head(schools)), Tail(schools))

\* deduplicated_schools = list(uai_dict.values())
Deduplicate(schools) == DictValues(DedupLoop(<<>>, schools))

\* annuaire_records = load_json("annuaire_pays_loire.json")
InitMerge ==
    /\ annuaire_records \in SeqsUpTo(DirectoryRows, MaxDirectory)
    /\ tables = EmptyTables
    /\ merged_schools = <<>>
    /\ schools_json = <<>>
    /\ mpc = "start"
    /\ StoreIdle /\ DownloadIdle /\ FetchIdle /\ PolIdle

\* merge_data(): join the directory, print the statistics (a division by
\* stats['total'], which raises when no school was merged), deduplicate, write
MergeData ==
    /\ mpc = "start"
    /\ merged_schools' = Join(annuaire_records)
    /\ IF merged_schools' = <<>>
       THEN mpc' = "crashed" /\ schools_json' = schools_json
       ELSE mpc' = "done" /\ schools_json' = Deduplicate(merged_schools')
    /\ UNCHANGED <<annuaire_records, tables, storeVars, downloadVars, fetchVars, polVars>>

NextMerge == MergeData

SpecMerge == InitMerge /\ [][NextMerge]_vars

ValidTypes == {"Primaire", "Collège", "Lycée"}

\* C7: every school written to schools.json has a type in {Primaire, Collège,
\* Lycée}; a directory row classified Unknown is never emitted.
C7_TypesValid ==
    mpc = "done" => \A i \in DOMAIN schools_json : schools_json[i].type \in ValidTypes

HasCoordinates(fields) == TruthyCoord(fields.latitude) /\ TruthyCoord(fields.longitude)

\* C8: every school written to schools.json has a latitude and a longitude;
\* each comes from a directory row that has both, and the file is what it
\* would be had the rows lacking either one not been in the directory at all.
C8_CoordinatesPresent ==
    mpc = "done" =>
        /\ \A i \in DOMAIN schools_json :
              /\ schools_json[i].latitude # None
              /\ schools_json[i].longitude # None
              /\ \E j \in DOMAIN annuaire_records :
                    /\ HasCoordinates(annuaire_records[j])
                    /\ annuaire_records[j].uai = schools_json[i].uai
                    /\ annuaire_records[j].nom_etablissement = schools_json[i].name
                    /\ annuaire_records[j].latitude = schools_json[i].latitude
                    /\ annuaire_records[j].longitude = schools_json[i].longitude
        /\ schools_json = Deduplicate(Join(SelectSeq(annuaire_records, HasCoordinates)))

\* a row without latitude and one without longitude whose name ("Jo") would
\* have won the deduplication of U1, next to a row of U1 that has both
C8_Witness ==
    /\ mpc = "done"
    /\ \E j \in DOMAIN annuaire_records :
          annuaire_records[j].latitude = None /\ annuaire_records[j].uai = "U1"
    /\ \E j \in DOMAIN annuaire_records :
          annuaire_records[j].longitude = None /\ annuaire_records[j].uai = "U1"
    /\ \E i \in DOMAIN schools_json : schools_json[i].uai = "U1"

\* C9: after the deduplication pass the output holds exactly one school per
\* UAI, and the survivor is a preferred candidate: no candidate of its UAI is
\* free of satellite-site keywords while the survivor has one, and no candidate
\* of its keyword class has a strictly shorter name.
C9_SurvivorPreferred ==
    mpc = "done" =>
        /\ \A i, j \in DOMAIN schools_json :
              schools_json[i].uai = schools_json[j].uai => i = j
        /\ \A c \in DOMAIN merged_schools :
              \E i \in DOMAIN schools_json : schools_json[i].uai = merged_schools[c].uai
        /\ \A i \in DOMAIN schools_json :
              /\ InSeq(schools_json[i], merged_schools)
              /\ \A c \in DOMAIN merged_schools :
                    merged_schools[c].uai = schools_json[i].uai =>
                        /\ ~(HasKeywords(schools_json[i].name)
                               /\ ~HasKeywords(merged_schools[c].name))
                        /\ (HasKeywords(merged_schools[c].name) = HasKeywords(schools_json[i].name)
                              => Len(merged_schools[c].name) >= Len(schools_json[i].name))

\* three candidates of one UAI: a keyword-bearing short name first, then a long
\* and a shorter keyword-free name; the last one survives
C9_Witness ==
    /\ mpc = "done"
    /\ Len(merged_schools) = 3
    /\ \A c \in DOMAIN merged_schools : merged_schools[c].uai = "U1"
    /\ HasKeywords(merged_schools[1].name)
    /\ ~HasKeywords(merged_schools[2].name)
    /\ ~HasKeywords(merged_schools[3].name)
    /\ Len(merged_schools[3].name) < Len(merged_schools[2].name)
    /\ Len(merged_schools[1].name) <= Len(merged_schools[3].name)
    /\ schools_json = <<merged_schools[3]>>

Orders(n) == {f \in [1..n -> 1..n] : \A a, b \in 1..n : f[a] = f[b] => a = b}

Reordered(rows, f) == [i \in DOMAIN rows |-> rows[f[i]]]

SetOf(s) == {s[i] : i \in DOMAIN s}

\* C10 as claimed: the same candidates survive deduplication whatever the
\* order in which the candidates appear in the directory.
C10_OrderIndependent ==
    mpc = "done" =>
        \A f \in Orders(Len(merged_schools)) :
            SetOf(Deduplicate(Reordered(merged_schools, f))) = SetOf(schools_json)

\* the first candidate of a UAI, in directory order, with a given keyword class
\* and name length
FirstLike(s) ==
    merged_schools[
        CHOOSE c \in DOMAIN merged_schools :
            /\ merged_schools[c].uai = s.uai
            /\ HasKeywords(merged_schools[c].name) = HasKeywords(s.name)
            /\ Len(merged_schools[c].name) = Len(s.name)
            /\ \A b \in 1..(c - 1) :
                  ~ /\ merged_schools[b].uai = s.uai
                    /\ HasKeywords(merged_schools[b].name) = HasKeywords(s.name)
                    /\ Len(merged_schools[b].name) = Len(s.name) ]

\* C10 amended: whatever the order of the directory, the survivor of a UAI has
\* the same keyword class and the same name length; among the candidates that
\* tie on both, the one that comes first in the directory survives.
C10_ClassAndLengthFixed ==
    mpc = "done" =>
        /\ \A f \in Orders(Len(merged_schools)) :
              LET other == Deduplicate(Reordered(merged_schools, f))
              IN /\ Len(other) = Len(schools_json)
                 /\ \A i \in DOMAIN other :
                       \E j \in DOMAIN schools_json :
                           /\ schools_json[j].uai = other[i].uai
                           /\ HasKeywords(schools_json[j].name) = HasKeywords(other[i].name)
                           /\ Len(schools_json[j].name) = Len(other[i].name)
        /\ \A j \in DOMAIN schools_json :
              /\ InSeq(schools_json[j], merged_schools)
              /\ schools_json[j] = FirstLike(schools_json[j])

\* two distinct candidates of one UAI that tie on keyword class and name length
C10_Witness ==
    /\ mpc = "done"
    /\ \E a, b \in DOMAIN merged_schools :
          /\ a < b
          /\ merged_schools[a].uai = merged_schools[b].uai
          /\ merged_schools[a].name # merged_schools[b].name
          /\ HasKeywords(merged_schools[a].name) = HasKeywords(merged_schools[b].name)
          /\ Len(merged_schools[a].name) = Len(merged_schools[b].name)
          /\ InSeq(merged_schools[a], schools_json)

(***************************************************************************)
(* merge_data with the IPS, enrollment and exam files: what each school    *)
(* carries of them.                                                        *)
(***************************************************************************)
Year2023 == <<2, 0, 2, 3>>

\* entries of the lookup dictionaries, with and without their year field
IpsEntry(year) ==
    [ ips |-> Some(1052), ips_etab |-> Some(1100), ips_ensemble_gt_pro |-> Nothing,
      rentree_scolaire |-> year ]

\* the dictionaries built from files whose rows carry the year given (or lack
\* the field when year is Nothing) and the student count given
TablesWith(year, count) ==
    [ ips_ecoles |-> << [key |-> "U2", value |-> IpsEntry(year)] >>,
      ips_colleges |-> << [key |-> "U3", value |-> IpsEntry(year)] >>,
      ips_lycees |-> << [key |-> "U1", value |-> IpsEntry(year)] >>,
      effectifs_ecoles |->
          << [key |-> "U2", value |-> [nombre_total_eleves |-> count, rentree_scolaire |-> year]] >>,
      effectifs_colleges |->
          << [key |-> "U3", value |-> [nombre_eleves_total |-> count, rentree_scolaire |-> year]] >>,
      effectifs_lycees |->
          << [key |-> "U1", value |-> [total_students |-> count, rentree |-> year]] >>,
      brevet_results |-> << [key |-> "U3", value |-> [session |-> year]] >>,
      bac_results |-> << [key |-> "U1", value |-> [annee |-> year]] >> ]

\* what the files other than the directory may hold: nothing, every table
\* with its years, every table without them, rows without a student count,
\* and the IPS and exam tables only
TableSets ==
    { EmptyTables,
      TablesWith(Some(Year2023), Some(120)),
      TablesWith(Nothing, Some(120)),
      TablesWith(Some(Year2023), Nothing),
      [ TablesWith(Some(Year2023), Some(120)) EXCEPT
            !.effectifs_ecoles = <<>>, !.effectifs_colleges = <<>>, !.effectifs_lycees = <<>> ] }

\* a directory row with coordinates and its own nombre_d_eleves
CountedRow(uai, e, n) == [ Row(uai, "47.2", "-1.5", e) EXCEPT !.nombre_d_eleves = n ]

\* a lycée, an école and a collège, each with and without nombre_d_eleves
JoinRows ==
    { CountedRow("U1", 6, Some(250)), CountedRow("U1", 6, Nothing),
      CountedRow("U2", 1, Some(90)), CountedRow("U2", 1, Nothing),
      CountedRow("U3", 2, Some(300)), CountedRow("U3", 2, Nothing) }

\* the files merge_data loads (lines 57-67) and the dictionaries it builds
InitJoin ==
    /\ annuaire_records \in SeqsUpTo(JoinRows, MaxDirectory)
    /\ tables \in TableSets
    /\ merged_schools = <<>>
    /\ schools_json = <<>>
    /\ mpc = "start"
    /\ StoreIdle /\ DownloadIdle /\ FetchIdle /\ PolIdle

SpecJoin == InitJoin /\ [][NextMerge]_vars

\* `if school.get('student_count')`: neither None nor 0
TruthyCount(n) == n # Nothing /\ n # Some(0)

\* `if school.get('enrollment_year')`: neither missing, None nor ''
TruthyYear(y) == y # Nothing /\ y # Some(<<>>)

\* C11: every value of a school written to schools.json carries its vintage:
\* a non-empty student_count comes with a non-empty enrollment_year, an ips
\* sub-record with a non-empty ips.year, exam_results with a non-empty
\* exam_results.year.
C11_VintagePresent ==
    mpc = "done" =>
        \A i \in DOMAIN schools_json :
            LET s == schools_json[i]
            IN /\ TruthyCount(s.student_count) => TruthyYear(s.enrollment_year)
               /\ s.ips # Nothing => s.ips[1].year # <<>>
               /\ s.exam_results # Nothing => s.exam_results[1].year # <<>>

\* C27: attaching an enrollment row never loses a known student count: the
\* student_count of a school object is null only if both its directory row
\* (nombre_d_eleves) and the enrollment row matched to it lack a count.
C27_CountNeverLost ==
    mpc = "done" =>
        \A i \in DOMAIN merged_schools :
            LET fields == annuaire_records[i]
                effectifs == EffectifsOf(categorize_school_type(fields), fields.uai)
            IN merged_schools[i].student_count = Nothing =>
                  /\ fields.nombre_d_eleves = Nothing
                  /\ effectifs = Nothing \/ effectifs[1].student_count = Nothing

\* C30: merge_data always reaches its persistence step: once it has run it
\* has written schools.json and returned, and when no directory row has both
\* a UAI and coordinates the list it wrote is empty.
C30_AlwaysPersists ==
    mpc # "start" =>
        /\ mpc = "done"
        /\ Join(annuaire_records) = <<>> => schools_json = <<>>

(***************************************************************************)
(* download_political_data: the election files and their merge.            *)
(*                                                                         *)
(* A CSV cell that the code parses or searches is a sequence of            *)
(* characters; the other cells are strings.  A percentage is held in       *)
(* tenths of a percent (29.6 is 296), a Python float rounded to one        *)
(* decimal being a whole number of tenths.                                 *)
(***************************************************************************)
MaxElectionRows == 2

DEPARTMENTS == {"44", "49", "53", "72", "85"}

PARTY_LABELS ==
    << [key |-> "LEXG", value |-> "Extrême gauche"], [key |-> "LCOM", value |-> "Communiste"],
       [key |-> "LFI", value |-> "La France insoumise"], [key |-> "LSOC", value |-> "Socialiste"],
       [key |-> "LUG", value |-> "Union de la gauche"], [key |-> "LDVG", value |-> "Divers gauche"],
       [key |-> "LVEC", value |-> "Écologiste"], [key |-> "LECO", value |-> "Écologiste"],
       [key |-> "LREM", value |-> "Renaissance (ex-LREM)"], [key |-> "LMDM", value |-> "Modem"],
       [key |-> "LUDI", value |-> "UDI"], [key |-> "LDVC", value |-> "Divers centre"],
       [key |-> "LUC", value |-> "Union du centre"], [key |-> "LLR", value |-> "Les Républicains"],
       [key |-> "LR", value |-> "Les Républicains"], [key |-> "LDVD", value |-> "Divers droite"],
       [key |-> "LUD", value |-> "Union de la droite"],
       [key |-> "LRN", value |-> "Rassemblement national"],
       [key |-> "LEXD", value |-> "Extrême droite"], [key |-> "LDIV", value |-> "Divers"],
       [key |-> "LNC", value |-> "Non classé"], [key |-> "NC", value |-> "Non classé"],
       [key |-> "DIV", value |-> "Divers"] >>

DigitChars == <<"0", "1", "2", "3", "4", "5", "6", "7", "8", "9">>

IsDigit(c) == \E d \in DOMAIN DigitChars : DigitChars[d] = c

DigitValue(c) == (CHOOSE d \in DOMAIN DigitChars : DigitChars[d] = c) - 1

RECURSIVE DigitsValue(_)
DigitsValue(text) ==
    IF text = <<>> THEN 0
    ELSE 10 * DigitsValue(SubSeq(text, 1, Len(text) - 1)) + DigitValue(text[Len(text)])

\* int(text) for the text of a count: Nothing when int() raises ValueError
ParseInt(text) ==
    IF text = <<>> \/ \E i \in DOMAIN text : ~IsDigit(text[i]) THEN Nothing
    ELSE Some(DigitsValue(text))

RECURSIVE Str(_)
\* the decimal text of a count, as the CSV files write it
Str(n) == IF n < 10 THEN <<DigitChars[n + 1]>> ELSE Str(n \div 10) \o <<DigitChars[(n % 10) + 1]>>

\* round((votes / total) * 100, 1) in tenths of a percent, total > 0: the
\* nearest tenth, a quotient halfway between two tenths going to the even one
Round1(votes, total) ==
    LET q == (1000 * votes) \div total
        r == (1000 * votes) % total
    IN IF 2 * r < total THEN q
       ELSE IF 2 * r > total THEN q + 1
       ELSE IF q % 2 = 0 THEN q ELSE q + 1

\* (votes / total) * 100 > stored, the stored percentage being in tenths
PercentageGT(votes, total, stored) == 1000 * votes > stored * total

\* the rows of the file(s) of one round, in file order
RoundFile(rows, round) == SelectSeq(rows, LAMBDA row : row.round = round)

(***************************************************************************)
(* download_municipal_2020                                                 *)
(***************************************************************************)
MunRow(round, dept, commune, liste, code_nuance, voix, exprimes) ==
    [ round |-> round, code_departement |-> dept, code_commune |-> commune, liste |-> liste,
      code_nuance |-> code_nuance, voix |-> voix, exprimes |-> exprimes ]

\* rows of the four municipal files: lists of commune 44001 in both rounds,
\* rows of 44002 with an unknown nuance, a vote count above the expressed
\* votes, an unparseable count, a row of another region, a row with no
\* expressed vote
MunRows ==
    { MunRow(1, "44", "001", "Liste A", "LDVD", Str(60), Str(100)),
      MunRow(1, "44", "001", "Liste B", "LSOC", Str(30), Str(100)),
      MunRow(2, "44", "001", "Liste B", "LSOC", Str(55), Str(100)),
      MunRow(2, "44", "001", "Liste A", "LDVD", Str(45), Str(100)),
      MunRow(2, "44", "001", "Liste C", "", Str(70), Str(100)),
      MunRow(1, "44", "002", "", "LZZ", Str(150), Str(100)),
      MunRow(1, "44", "002", "Liste E", "LDVG", Str(1), Str(3)),
      MunRow(1, "44", "002", "Liste D", "LDVG", <<"a", "b", "c">>, Str(100)),
      MunRow(1, "44", "001", "Liste F", "LDVG", Str(0), Str(0)),
      MunRow(1, "75", "056", "Liste P", "LSOC", Str(50), Str(100)) }

\* municipal[insee_code] = {...} (lines 322-328)
MunicipalEntry(round_num, row, votes, total) ==
    [ year |-> 2020,
      round |-> round_num,
      winning_list |-> IF row.liste = "" THEN "Liste inconnue" ELSE row.liste,
      percentage |-> Round1(votes, total),
      party |-> IF row.code_nuance = "" THEN Nothing ELSE Some(row.code_nuance) ]

\* whether a parsed row replaces what municipal holds for its commune (lines 318-321)
MunicipalReplaces(d, insee_code, round_num, votes, total) ==
    /\ ~DictHas(d, insee_code) \/ DictGet(d, insee_code).round <= round_num
    /\ ~DictHas(d, insee_code)
          \/ PercentageGT(votes, total, DictGet(d, insee_code).percentage)

\* one iteration of `for row in reader:` (lines 297-331)
MunicipalRow(d, round_num, row) ==
    IF row.code_departement \notin DEPARTMENTS THEN d
    ELSE LET insee_code == row.code_departement \o row.code_commune
             votes == ParseInt(row.voix)
             total == ParseInt(row.exprimes)
         IN IF row.voix = <<>> \/ row.exprimes = <<>> THEN d
            ELSE IF votes = Nothing \/ total = Nothing THEN d
            ELSE IF total[1] > 0
                    /\ MunicipalReplaces(d, insee_code, round_num, votes[1], total[1])
                 THEN DictSet(d, insee_code, MunicipalEntry(round_num, row, votes[1], total[1]))
            ELSE d

RECURSIVE MunicipalFile(_, _, _)
MunicipalFile(d, round_num, rows) ==
    IF rows = <<>> THEN d
    ELSE MunicipalFile(MunicipalRow(d, round_num, Head(rows)), round_num, Tail(rows))

\* `for round_num, round_config in rounds.items():` round 1, then round 2
download_municipal_2020(rows) ==
    MunicipalFile(MunicipalFile(<<>>, 1, RoundFile(rows, 1)), 2, RoundFile(rows, 2))

(***************************************************************************)
(* download_presidential_2022                                              *)
(***************************************************************************)
\* no sort at all
SortNone(cands, field) == cands

\* a sort that puts the lowest key first
RECURSIVE SortAscBy(_, _)
SortAscBy(cands, field) ==
    IF cands = <<>> THEN <<>>
    ELSE LET low == CHOOSE i \in DOMAIN cands :
                        \A j \in DOMAIN cands : cands[j][field] >= cands[i][field]
             least == cands[low][field]
         IN SelectSeq(cands, LAMBDA c : c[field] = least)
            \o SortAscBy(SelectSeq(cands, LAMBDA c : c[field] # least), field)

RECURSIVE SortDescBy(_, _)
\* list.sort(key=lambda x: x[field], reverse=True): a stable sort, so the
\* entries of the highest key come first, in the order they had
SortDescBy(cands, field) ==
    IF cands = <<>> THEN <<>>
    ELSE LET top == CHOOSE i \in DOMAIN cands :
                        \A j \in DOMAIN cands : cands[j][field] <= cands[i][field]
             best == cands[top][field]
         IN SelectSeq(cands, LAMBDA c : c[field] = best)
            \o SortDescBy(SelectSeq(cands, LAMBDA c : c[field] # best), field)

\* candidates[:n]
FirstN(s, n) == SubSeq(s, 1, IF Len(s) < n THEN Len(s) ELSE n)

\* f"{prenom} {nom}".strip() if prenom else nom
CandidateName(prenom, nom) == IF prenom = <<>> THEN nom ELSE prenom \o <<" ">> \o nom

PresRow(round, dept, commune, nom, prenom, voix, exprimes) ==
    [ round |-> round, code_departement |-> dept, code_commune |-> commune, nom |-> nom,
      prenom |-> prenom, voix |-> voix, exprimes |-> exprimes ]

MACRON == <<"M", "A", "C", "R", "O", "N">>

LEPEN == <<"L", "E", " ", "P", "E", "N">>

Emmanuel == <<"E", "m", "m", "a", "n", "u", "e", "l">>

Marine == <<"M", "a", "r", "i", "n", "e">>

\* rows of the two presidential files: candidates of commune 44109 with the
\* counts of the tests, candidates of 44001 (one with an unparseable count,
\* one on a row without expressed votes), a row of another region
PresRows ==
    { PresRow("round_1", "44", "109", MACRON, Emmanuel, Str(43386), Str(146394)),
      PresRow("round_1", "44", "109", LEPEN, Marine, Str(20000), Str(146394)),
      PresRow("round_1", "44", "109", <<"R", "O", "U", "S", "S", "E", "L">>, <<>>,
              Str(43386), Str(146394)),
      PresRow("round_1", "44", "001", MACRON, Emmanuel, Str(60), Str(100)),
      PresRow("round_1", "44", "001", LEPEN, Marine, <<"a", "b", "c">>, Str(100)),
      PresRow("round_1", "44", "001", <<"A", "R", "T", "H", "A", "U", "D">>, <<>>, Str(5), <<>>),
      PresRow("round_2", "44", "001", MACRON, Emmanuel, Str(60), Str(100)),
      PresRow("round_2", "44", "109", MACRON, Emmanuel, Str(103996), Str(128159)),
      PresRow("round_2", "44", "001", LEPEN, Marine, Str(40), Str(100)),
      PresRow("round_1", "75", "056", MACRON, Emmanuel, Str(50), Str(100)) }

\* commune_votes[insee_code][candidate_name] += int(voix): the two items are
\* created (at 0) by the lookups before int() is evaluated, so they stay when
\* int() raises
AddVotes(commune_votes, insee_code, candidate_name, voix) ==
    LET of_commune == IF DictHas(commune_votes, insee_code)
                      THEN DictGet(commune_votes, insee_code) ELSE <<>>
        before == IF DictHas(of_commune, candidate_name)
                  THEN DictGet(of_commune, candidate_name) ELSE 0
        votes == ParseInt(voix)
        after == IF votes = Nothing THEN before ELSE before + votes[1]
    IN DictSet(commune_votes, insee_code, DictSet(of_commune, candidate_name, after))

\* a total to which every row of the commune adds its expressed votes
AddToTotal(commune_totals, insee_code, exprimes) ==
    IF exprimes # <<>> /\ ParseInt(exprimes) # Nothing
    THEN DictSet(commune_totals, insee_code,
                 ParseInt(exprimes)[1] + (IF DictHas(commune_totals, insee_code)
                                          THEN DictGet(commune_totals, insee_code) ELSE 0))
    ELSE commune_totals

\* if exprimes and insee_code not in commune_totals: commune_totals[...] = int(exprimes)
SetTotalOnce(commune_totals, insee_code, exprimes) ==
    IF exprimes # <<>> /\ ~DictHas(commune_totals, insee_code) /\ ParseInt(exprimes) # Nothing
    THEN DictSet(commune_totals, insee_code, ParseInt(exprimes)[1])
    ELSE commune_totals

\* one iteration of `for row in reader:` (lines 409-436) on
\* [commune_votes, commune_totals]
PresidentialRow(acc, row) ==
    IF row.code_departement \notin DEPARTMENTS THEN acc
    ELSE LET insee_code == row.code_departement \o row.code_commune
         IN [ commune_votes |->
                  IF row.voix # <<>> /\ row.nom # <<>>
                  THEN AddVotes(acc.commune_votes, insee_code,
                                CandidateName(row.prenom, row.nom), row.voix)
                  ELSE acc.commune_votes,
              commune_totals |-> SetTotalOnce(acc.commune_totals, insee_code, row.exprimes) ]

RECURSIVE PresidentialRows(_, _)
PresidentialRows(acc, rows) ==
    IF rows = <<>> THEN acc ELSE PresidentialRows(PresidentialRow(acc, Head(rows)), Tail(rows))

RECURSIVE SumVotes(_)
\* sum(commune_votes[insee_code].values())
SumVotes(of_commune) ==
    IF of_commune = <<>> THEN 0 ELSE Head(of_commune).value + SumVotes(Tail(of_commune))

\* total = commune_totals.get(insee_code, sum(commune_votes[insee_code].values()))
CommuneTotal(acc, insee_code) ==
    IF DictHas(acc.commune_totals, insee_code) THEN DictGet(acc.commune_totals, insee_code)
    ELSE SumVotes(DictGet(acc.commune_votes, insee_code))

\* the candidates list of a commune, sorted by percentage (lines 445-455)
PresCandidates(of_commune, total) ==
    SortDescBy([ i \in DOMAIN of_commune |->
                    [ candidate |-> of_commune[i].key,
                      percentage |-> Round1(of_commune[i].value, total),
                      votes |-> of_commune[i].value ] ],
               "percentage")

\* the first candidate whose upper-cased name holds MACRON, if any
FindMacron(candidates) ==
    LET hits == SelectSeq(candidates, LAMBDA c : Contains(Upper(c.candidate), MACRON))
    IN IF hits = <<>> THEN Nothing ELSE Some(Head(hits))

\* a second round whose le_pen share forgets to take Macron's votes away
RoundTwoUnsubtracted(macron_votes, total) ==
    [ macron |-> Round1(macron_votes, total), le_pen |-> Round1(total, total) ]

\* presidential[insee_code]['round_2'] = {'macron': ..., 'le_pen': ...}
RoundTwo(macron_votes, total) ==
    [ macron |-> Round1(macron_votes, total), le_pen |-> Round1(total - macron_votes, total) ]

\* what one commune of commune_votes does to presidential (lines 439-489)
PresidentialCommune(d, round_name, acc, insee_code) ==
    LET total == CommuneTotal(acc, insee_code)
        candidates == PresCandidates(DictGet(acc.commune_votes, insee_code), total)
        before == IF DictHas(d, insee_code) THEN DictGet(d, insee_code)
                  ELSE [round_1 |-> Nothing, round_2 |-> Nothing]
        macron == FindMacron(candidates)
    IN IF total = 0 THEN d
       ELSE IF round_name = "round_1"
       THEN DictSet(d, insee_code,
                [ before EXCEPT !.round_1 =
                    Some([ i \in DOMAIN FirstN(candidates, 4) |->
                             [ candidate |-> candidates[i].candidate,
                               percentage |-> candidates[i].percentage ] ]) ])
       ELSE IF macron # Nothing /\ total > 0
       THEN DictSet(d, insee_code, [before EXCEPT !.round_2 = Some(RoundTwo(macron[1].votes, total))])
       ELSE DictSet(d, insee_code, before)

RECURSIVE PresidentialCommunes(_, _, _, _)
\* `for insee_code in commune_votes:` from the k-th commune on
PresidentialCommunes(d, round_name, acc, k) ==
    IF k > Len(acc.commune_votes) THEN d
    ELSE PresidentialCommunes(
             PresidentialCommune(d, round_name, acc, acc.commune_votes[k].key),
             round_name, acc, k + 1)

NoVotes == [commune_votes |-> <<>>, commune_totals |-> <<>>]

\* one pass of `for round_name, config in rounds_config.items():`
PresidentialRound(d, round_name, rows) ==
    PresidentialCommunes(d, round_name, PresidentialRows(NoVotes, RoundFile(rows, round_name)), 1)

download_presidential_2022(rows) ==
    PresidentialRound(PresidentialRound(<<>>, "round_1", rows), "round_2", rows)

(***************************************************************************)
(* download_legislative_2024: one row per commune, the candidates in        *)
(* numbered groups of columns.                                             *)
(***************************************************************************)
\* the safety limit of the extraction loop
SlotLimit == 300

Slot(nom, prenom, voix, nuance) == [nom |-> nom, prenom |-> prenom, voix |-> voix, nuance |-> nuance]

\* row.get(..., '') of a group of columns the row does not have
EmptySlot == Slot(<<>>, <<>>, <<>>, "")

\* a filled group of columns
FilledSlot == Slot(<<"X">>, <<>>, Str(1), "")

\* a row: its first groups of columns one by one, then `more` groups that all
\* hold FilledSlot
LegRow(round, dept, commune, exprimes, slots, more) ==
    [ round |-> round, code_departement |-> dept, code_commune |-> commune,
      exprimes |-> exprimes, slots |-> slots, more |-> more ]

\* the columns 'Nom candidat n', 'Prénom candidat n', 'Voix n', 'Nuance candidat n'
SlotAt(row, n) ==
    IF n <= Len(row.slots) THEN row.slots[n]
    ELSE IF n <= Len(row.slots) + row.more THEN FilledSlot
    ELSE EmptySlot

\* rows of the two legislative files: the row of the tests, five candidates
\* with a tie, a second round of three with two percentages that round alike,
\* a row with an unparseable count and a gap before its last candidate, a row
\* with more filled groups than the safety limit, rows without usable
\* expressed votes, a row of another region, a row whose first group is empty
LegRows ==
    { LegRow("round_1", "44", "44001", Str(988),
             << Slot(<<"R", "A", "U", "X">>, <<"J", "C">>, Str(345), "UG"),
                Slot(<<"P", "I", "C", "H", "O", "N">>, <<"J">>, Str(314), "RN") >>, 0),
      LegRow("round_1", "44", "44001", Str(1000),
             << Slot(<<"A">>, <<>>, Str(100), "UG"), Slot(<<"B">>, <<>>, Str(300), "RN"),
                Slot(<<"C">>, <<>>, Str(200), "ENS"), Slot(<<"D">>, <<>>, Str(300), ""),
                Slot(<<"E">>, <<>>, Str(50), "LR") >>, 0),
      LegRow("round_2", "44", "44001", Str(10000),
             << Slot(<<"C">>, <<>>, Str(2500), "ENS"), Slot(<<"A">>, <<>>, Str(3001), "UG"),
                Slot(<<"B">>, <<>>, Str(3002), "RN") >>, 0),
      LegRow("round_1", "44", "44002", Str(100),
             << Slot(<<"A">>, <<>>, Str(50), "UG"), Slot(<<"B">>, <<>>, <<"a", "b", "c">>, "RN"),
                Slot(<<"C">>, <<>>, Str(30), "ENS"), EmptySlot,
                Slot(<<"D">>, <<>>, Str(20), "LR") >>, 0),
      LegRow("round_1", "44", "44002", Str(1000),
             << Slot(<<"A">>, <<>>, Str(50), "UG") >>, 400),
      LegRow("round_1", "44", "44001", <<>>, << Slot(<<"A">>, <<>>, Str(50), "UG") >>, 0),
      LegRow("round_2", "44", "44001", Str(0), << Slot(<<"A">>, <<>>, Str(50), "UG") >>, 0),
      LegRow("round_1", "75", "75056", Str(100), << Slot(<<"A">>, <<>>, Str(50), "UG") >>, 0),
      LegRow("round_2", "44", "44002", Str(100),
             << Slot(<<>>, <<>>, Str(50), "UG"), Slot(<<"B">>, <<>>, Str(50), "RN") >>, 0) }

\* candidates.append({...}) (lines 577-587)
LegCandidate(slot, votes, total_exprimes) ==
    [ candidate |-> CandidateName(slot.prenom, slot.nom),
      party |-> IF slot.nuance = "" THEN "DIV" ELSE slot.nuance,
      percentage |-> Round1(votes, total_exprimes),
      votes |-> votes ]

\* a loop with no safety limit
NoLimit(candidate_num) == TRUE

\* whether the loop goes on after the group candidate_num - 1
WithinLimit(candidate_num) == ~(candidate_num > SlotLimit)

\* one pass of `while True:` on the group candidate_num (lines 564-594);
\* examined is the number of the last group read, stopped says that a break
\* was taken
ExtractStep(row, total_exprimes, st, candidate_num) ==
    LET slot == SlotAt(row, candidate_num)
        votes == ParseInt(slot.voix)
    IN IF slot.nom = <<>> \/ slot.voix = <<>>
       THEN [candidates |-> st.candidates, examined |-> candidate_num, stopped |-> TRUE]
       ELSE [ candidates |-> IF votes = Nothing THEN st.candidates
                             ELSE Append(st.candidates,
                                         LegCandidate(slot, votes[1], total_exprimes)),
              examined |-> candidate_num,
              stopped |-> ~WithinLimit(candidate_num + 1) ]

RECURSIVE ExtractRange(_, _, _, _, _)
\* the passes on the groups lo..hi, in order, until a break is taken
ExtractRange(row, total_exprimes, st, lo, hi) ==
    IF st.stopped THEN st
    ELSE IF lo = hi THEN ExtractStep(row, total_exprimes, st, lo)
    ELSE LET mid == (lo + hi) \div 2
         IN ExtractRange(row, total_exprimes,
                         ExtractRange(row, total_exprimes, st, lo, mid), mid + 1, hi)

\* the whole loop: the group after the last one the row has is empty, so the
\* loop never reads past it
ExtractCandidates(row, total_exprimes) ==
    ExtractRange(row, total_exprimes,
                 [candidates |-> <<>>, examined |-> 0, stopped |-> FALSE],
                 1, Len(row.slots) + row.more + 1)

\* the top four whatever the round
TopCountOfRoundOne(round_name) == 4

\* top_count = 2 if round_name == 'round_2' else 4
TopCount(round_name) == IF round_name = "round_2" THEN 2 ELSE 4

\* the stored form of a candidate (without its vote count)
Stored(c) == [candidate |-> c.candidate, party |-> c.party, percentage |-> c.percentage]

\* whether a row gets past the filters on department and expressed votes
LegRowUsable(row) ==
    /\ row.code_departement \in DEPARTMENTS
    /\ row.exprimes # <<>>
    /\ ParseInt(row.exprimes) # Nothing
    /\ ParseInt(row.exprimes)[1] # 0

\* candidates.sort(key=lambda x: x['votes'], reverse=True) of a usable row
LegSorted(row) ==
    SortDescBy(ExtractCandidates(row, ParseInt(row.exprimes)[1]).candidates, "votes")

\* one iteration of `for row in reader:` (lines 537-618) on
\* [legislative, leg_candidates]
LegislativeRow(acc, round_name, row) ==
    IF ~LegRowUsable(row) THEN acc
    ELSE LET insee_code == row.code_commune
             candidates == LegSorted(row)
             before == IF DictHas(acc.legislative, insee_code)
                       THEN DictGet(acc.legislative, insee_code)
                       ELSE [round_1 |-> Nothing, round_2 |-> Nothing]
             top == FirstN(candidates, TopCount(round_name))
         IN IF candidates = <<>> THEN acc
            ELSE [ legislative |->
                       DictSet(acc.legislative, insee_code,
                               [before EXCEPT ![round_name] = Some([i \in DOMAIN top |-> Stored(top[i])])]),
                   leg_candidates |->
                       DictSet(acc.leg_candidates, <<insee_code, round_name>>, candidates) ]

RECURSIVE LegislativeFile(_, _, _)
LegislativeFile(acc, round_name, rows) ==
    IF rows = <<>> THEN acc
    ELSE LegislativeFile(LegislativeRow(acc, round_name, Head(rows)), round_name, Tail(rows))

\* `for round_name, url in urls.items():` round_1, then round_2
download_legislative_2024(rows) ==
    LegislativeFile(
        LegislativeFile([legislative |-> <<>>, leg_candidates |-> <<>>],
                        "round_1", RoundFile(rows, "round_1")),
        "round_2", RoundFile(rows, "round_2"))

(***************************************************************************)
(* merge_political_data and main                                           *)
(***************************************************************************)
RECURSIVE download_mayors(_)
Mayor(first_name, last_name) == [first_name |-> first_name, last_name |-> last_name, party |-> Nothing]

\* a row of the RNE mayors file (lines 225-233)
MayorRow(function_name, dept_code, com_code, first_name, last_name) ==
    [ function_name |-> function_name, dept_code |-> dept_code, com_code |-> com_code,
      first_name |-> first_name, last_name |-> last_name ]

\* the RNE file: two mayors of Loire-Atlantique, a deputy mayor, a mayor of
\* another region, a mayor whose commune code lost a digit
MayorsFile ==
    << MayorRow("Maire", "44", "44001", "Anne", "Martin"),
       MayorRow("Maire", "44", "44002", "Luc", "Dubois"),
       MayorRow("Adjoint", "44", "44003", "Paul", "Petit"),
       MayorRow("Maire", "75", "75056", "Jean", "Durand"),
       MayorRow("Maire", "44", "4401", "Lea", "Roux") >>

\* the loop of download_mayors over the rows (lines 219-240)
download_mayors(rows) ==
    IF rows = <<>> THEN <<>>
    ELSE LET d == download_mayors(SubSeq(rows, 1, Len(rows) - 1))
             row == rows[Len(rows)]
         IN IF row.function_name # "Maire" THEN d
            ELSE IF row.dept_code \in DEPARTMENTS /\ row.com_code # ""
            THEN DictSet(d, row.com_code, Mayor(row.first_name, row.last_name))
            ELSE d

\* what build_insee_mapping and download_mayors may have written: nothing, a
\* mapping only, mayors and a mapping that names one of their communes
Registries ==
    { [ mayors |-> <<>>, insee_mapping |-> <<>> ],
      [ mayors |-> <<>>,
        insee_mapping |->
            << [key |-> "NANTES|44000", value |-> [insee_code |-> "44109", commune_name |-> "Nantes"]] >> ],
      [ mayors |-> download_mayors(MayorsFile),
        insee_mapping |->
            << [key |-> "ABBARETZ|44170", value |-> [insee_code |-> "44001", commune_name |-> "Abbaretz"]],
               [key |-> "NANTES|44000", value |-> [insee_code |-> "44109", commune_name |-> "Nantes"]] >> ] }

DictKeys(d) == {d[i].key : i \in DOMAIN d}

\* d.get(key)
DictGetOpt(d, k) == IF DictHas(d, k) THEN Some(DictGet(d, k)) ELSE Nothing

\* all_insee_codes (lines 667-677)
AllInseeCodes(mapping, mayors_d, municipal_d, presidential_d, legislative_d) ==
    {mapping[i].value.insee_code : i \in DOMAIN mapping}
    \cup DictKeys(mayors_d) \cup DictKeys(municipal_d)
    \cup DictKeys(presidential_d) \cup DictKeys(legislative_d)

\* commune_name of a code: from the mapping, else inferred when it has a mayor
CommuneName(mapping, mayors_d, insee_code) ==
    LET hits == SelectSeq(mapping, LAMBDA e : e.value.insee_code = insee_code)
    IN IF hits # <<>> /\ Head(hits).value.commune_name # ""
       THEN Some(Head(hits).value.commune_name)
       ELSE IF DictHas(mayors_d, insee_code) THEN Some("Commune " \o insee_code)
       ELSE Nothing

\* a label that keeps the code only when the table has it
PartyLabelKnownOnly(party_code) ==
    IF DictHas(PARTY_LABELS, party_code) THEN Some(DictGet(PARTY_LABELS, party_code))
    ELSE Nothing

\* PARTY_LABELS.get(party_code, party_code)
PartyLabel(party_code) ==
    IF DictHas(PARTY_LABELS, party_code) THEN Some(DictGet(PARTY_LABELS, party_code))
    ELSE Some(party_code)

\* mayor_info of a commune (lines 694-706)
MayorInfo(mayors_d, municipal_d, insee_code) ==
    IF DictHas(mayors_d, insee_code) /\ DictHas(municipal_d, insee_code)
    THEN LET party_code == DictGet(municipal_d, insee_code).party
         IN Some([ DictGet(mayors_d, insee_code) EXCEPT
                     !.party = IF party_code # Nothing /\ party_code # Some("")
                               THEN PartyLabel(party_code[1]) ELSE Nothing ])
    ELSE DictGetOpt(mayors_d, insee_code)

\* political_data: a JSON object, from INSEE code to the commune's entry
merge_political_data(mapping, mayors_d, municipal_d, presidential_d, legislative_d) ==
    LET codes == AllInseeCodes(mapping, mayors_d, municipal_d, presidential_d, legislative_d)
        named == {c \in codes : CommuneName(mapping, mayors_d, c) # Nothing}
    IN [ insee_code \in named |->
           [ commune_name |-> CommuneName(mapping, mayors_d, insee_code)[1],
             insee_code |-> insee_code,
             mayor |-> MayorInfo(mayors_d, municipal_d, insee_code),
             municipal_2020 |-> DictGetOpt(municipal_d, insee_code),
             presidential_2022 |-> DictGetOpt(presidential_d, insee_code),
             legislative_2024 |-> DictGetOpt(legislative_d, insee_code) ] ]

\* the files of one election, the files of the two others being empty (a
\* download that failed leaves its function without rows)
ElectionFileSets ==
    { [NoElectionFiles EXCEPT !.municipal = rows] : rows \in SeqsUpTo(MunRows, MaxElectionRows) }
    \cup { [NoElectionFiles EXCEPT !.presidential = rows] : rows \in SeqsUpTo(PresRows, MaxElectionRows) }
    \cup { [NoElectionFiles EXCEPT !.legislative = rows] : rows \in SeqsUpTo(LegRows, MaxElectionRows) }

\* main() after steps 1 and 2
InitPolitical ==
    /\ election_files \in ElectionFileSets
    /\ \E reg \in Registries : mayors = reg.mayors /\ insee_mapping = reg.insee_mapping
    /\ municipal = <<>>
    /\ presidential = <<>>
    /\ legislative = <<>>
    /\ leg_candidates = <<>>
    /\ political_data = <<>>
    /\ ppc = "municipal"
    /\ StoreIdle /\ DownloadIdle /\ FetchIdle /\ MergeIdle

\* step 3: municipal = download_municipal_2020()
DownloadMunicipal ==
    /\ ppc = "municipal"
    /\ municipal' = download_municipal_2020(election_files.municipal)
    /\ ppc' = "presidential"
    /\ UNCHANGED <<election_files, mayors, insee_mapping, presidential, legislative,
                   leg_candidates, political_data, storeVars, downloadVars, fetchVars, mergeVars>>

\* step 4: presidential = download_presidential_2022()
DownloadPresidential ==
    /\ ppc = "presidential"
    /\ presidential' = download_presidential_2022(election_files.presidential)
    /\ ppc' = "legislative"
    /\ UNCHANGED <<election_files, mayors, insee_mapping, municipal, legislative,
                   leg_candidates, political_data, storeVars, downloadVars, fetchVars, mergeVars>>

\* step 5: legislative = download_legislative_2024()
DownloadLegislative ==
    /\ ppc = "legislative"
    /\ LET result == download_legislative_2024(election_files.legislative)
       IN /\ legislative' = result.legislative
          /\ leg_candidates' = result.leg_candidates
    /\ ppc' = "merge"
    /\ UNCHANGED <<election_files, mayors, insee_mapping, municipal, presidential,
                   political_data, storeVars, downloadVars, fetchVars, mergeVars>>

\* step 6: merge_political_data(); the coverage of the mayors is printed with
\* a division by len(political_data) (line 726), which raises before the file
\* is written when no commune was merged
MergePolitical ==
    /\ ppc = "merge"
    /\ LET merged == merge_political_data(insee_mapping, mayors, municipal, presidential, legislative)
       IN IF DOMAIN merged = {}
          THEN ppc' = "crashed" /\ political_data' = political_data
          ELSE ppc' = "done" /\ political_data' = merged
    /\ UNCHANGED <<election_files, mayors, insee_mapping, municipal, presidential, legislative,
                   leg_candidates, storeVars, downloadVars, fetchVars, mergeVars>>

NextPolitical == DownloadMunicipal \/ DownloadPresidential \/ DownloadLegislative \/ MergePolitical

SpecPolitical == InitPolitical /\ [][NextPolitical]_vars

(***************************************************************************)
(* Claims on download_presidential_2022                                    *)
(***************************************************************************)
\* the rows of a commune in the file of a round, other regions left out
PresRowsOf(round_name, insee_code) ==
    SelectSeq(RoundFile(election_files.presidential, round_name),
              LAMBDA row : /\ row.code_departement \in DEPARTMENTS
                           /\ row.code_departement \o row.code_commune = insee_code)

\* the rows of a commune that carry a parseable expressed-votes value
WithExpressed(round_name, insee_code) ==
    SelectSeq(PresRowsOf(round_name, insee_code), LAMBDA row : ParseInt(row.exprimes) # Nothing)

RECURSIVE VotesIn(_, _)
\* the votes the rows give to a candidate name
VotesIn(rows, name) ==
    IF rows = <<>> THEN 0
    ELSE (IF /\ Head(rows).nom # <<>>
             /\ CandidateName(Head(rows).prenom, Head(rows).nom) = name
             /\ ParseInt(Head(rows).voix) # Nothing
          THEN ParseInt(Head(rows).voix)[1] ELSE 0)
         + VotesIn(Tail(rows), name)

PresidentialDone == ppc \in {"legislative", "merge", "done", "crashed"}

\* C12: in download_presidential_2022 the expressed-votes denominator of a
\* commune is the value of the first row of the commune that carries a
\* parseable one, never a sum over the candidate rows: each stored first-round
\* percentage is the candidate's votes over that value, times 100, rounded to
\* one decimal (43386 over 146394 is 29.6).
C12_DenominatorReadOnce ==
    PresidentialDone =>
        \A k \in DOMAIN presidential :
            LET insee_code == presidential[k].key
                expressed == WithExpressed("round_1", insee_code)
                round_1 == presidential[k].value.round_1
            IN (round_1 # Nothing /\ expressed # <<>>) =>
                  \A i \in DOMAIN round_1[1] :
                      round_1[1][i].percentage =
                          Round1(VotesIn(PresRowsOf("round_1", insee_code), round_1[1][i].candidate),
                                 ParseInt(Head(expressed).exprimes)[1])

\* two candidate rows of commune 44109, each carrying 146394 expressed votes,
\* and the 43386 votes stored as 29.6
C12_Witness ==
    /\ PresidentialDone
    /\ Len(PresRowsOf("round_1", "44109")) = 2
    /\ DictHas(presidential, "44109")
    /\ DictGet(presidential, "44109").round_1 # Nothing
    /\ \E i \in DOMAIN DictGet(presidential, "44109").round_1[1] :
          LET c == DictGet(presidential, "44109").round_1[1][i]
          IN c.candidate = CandidateName(Emmanuel, MACRON) /\ c.percentage = 296

\* the total the code divides by for a commune of the second-round file
RoundTwoTotal(insee_code) ==
    IF WithExpressed("round_2", insee_code) # <<>>
    THEN ParseInt(Head(WithExpressed("round_2", insee_code)).exprimes)[1]
    ELSE 0

\* C13: for every commune with a stored round_2, macron + le_pen lies within
\* [99, 101], le_pen being the share of the expressed votes left once the
\* votes of a Macron row are taken away.
C13_RoundTwoSumsTo100 ==
    PresidentialDone =>
        \A k \in DOMAIN presidential :
            LET insee_code == presidential[k].key
                round_2 == presidential[k].value.round_2
                rows == PresRowsOf("round_2", insee_code)
                total == RoundTwoTotal(insee_code)
            IN round_2 # Nothing =>
                  /\ 990 <= round_2[1].macron + round_2[1].le_pen
                  /\ round_2[1].macron + round_2[1].le_pen <= 1010
                  /\ total > 0 =>
                        \E j \in DOMAIN rows :
                            LET name == CandidateName(rows[j].prenom, rows[j].nom)
                                macron_votes == VotesIn(rows, name)
                            IN /\ Contains(Upper(name), MACRON)
                               /\ round_2[1].macron = Round1(macron_votes, total)
                               /\ round_2[1].le_pen = Round1(total - macron_votes, total)

\* the second round of 44109: 103996 of 128159 votes, stored as 81.1 and 18.9
C13_Witness ==
    /\ PresidentialDone
    /\ DictHas(presidential, "44109")
    /\ DictGet(presidential, "44109").round_2 = Some([macron |-> 811, le_pen |-> 189])

(***************************************************************************)
(* Claims on the stored percentages and candidate lists                    *)
(***************************************************************************)
MunicipalDone == ppc \in {"presidential", "legislative", "merge", "done", "crashed"}

LegislativeDone == ppc \in {"merge", "done", "crashed"}

InRange(pct) == 0 <= pct /\ pct <= 1000

\* C14: every stored percentage lies within [0, 100]: the municipal
\* winning-list percentage, the presidential first-round percentages and the
\* second-round macron and le_pen values.
C14_PercentagesInRange ==
    /\ MunicipalDone => \A k \in DOMAIN municipal : InRange(municipal[k].value.percentage)
    /\ PresidentialDone =>
          \A k \in DOMAIN presidential :
              LET p == presidential[k].value
              IN /\ p.round_1 # Nothing =>
                       \A i \in DOMAIN p.round_1[1] : InRange(p.round_1[1][i].percentage)
                 /\ p.round_2 # Nothing =>
                       InRange(p.round_2[1].macron) /\ InRange(p.round_2[1].le_pen)

\* the lists stored for a commune by the legislative download
LegLists(entry) ==
    (IF entry.round_1 = Nothing THEN {} ELSE {entry.round_1[1]})
    \cup (IF entry.round_2 = Nothing THEN {} ELSE {entry.round_2[1]})

NonIncreasing(list, field) ==
    \A i \in DOMAIN list : i + 1 \in DOMAIN list => list[i][field] >= list[i + 1][field]

\* C15: every stored candidate list (presidential round_1, legislative
\* round_1 and round_2) is in descending (>=) order of percentage, although
\* the legislative lists are ordered by vote count before rounding.
C15_DescendingPercentage ==
    /\ PresidentialDone =>
          \A k \in DOMAIN presidential :
              presidential[k].value.round_1 # Nothing =>
                  NonIncreasing(presidential[k].value.round_1[1], "percentage")
    /\ LegislativeDone =>
          \A k \in DOMAIN legislative :
              \A list \in LegLists(legislative[k].value) : NonIncreasing(list, "percentage")

\* a legislative list of two candidates with distinct vote counts (3002 and
\* 3001 of 10000) stored with one and the same percentage, 30.0
C15_Witness ==
    /\ LegislativeDone
    /\ DictHas(legislative, "44001")
    /\ DictGet(legislative, "44001").round_2 # Nothing
    /\ LET list == DictGet(legislative, "44001").round_2[1]
           ranked == DictGet(leg_candidates, <<"44001", "round_2">>)
       IN /\ Len(list) = 2
          /\ list[1].percentage = 300 /\ list[2].percentage = 300
          /\ ranked[1].votes > ranked[2].votes

\* the candidates behind a stored legislative list, with their vote counts
Ranked(insee_code, round_name) ==
    FirstN(DictGet(leg_candidates, <<insee_code, round_name>>), TopCount(round_name))

StrictlyDecreasing(list, field) ==
    \A i \in DOMAIN list : i + 1 \in DOMAIN list => list[i][field] > list[i + 1][field]

\* C16: the top-4 and top-2 lists are sorted strictly descending by their
\* ranking field (the rounded percentage for the presidential list, the vote
\* count for the legislative lists): no two adjacent entries have equal
\* ranking values.
C16_StrictlyDescending ==
    /\ PresidentialDone =>
          \A k \in DOMAIN presidential :
              presidential[k].value.round_1 # Nothing =>
                  StrictlyDecreasing(presidential[k].value.round_1[1], "percentage")
    /\ LegislativeDone =>
          \A k \in DOMAIN leg_candidates :
              StrictlyDecreasing(Ranked(leg_candidates[k].key[1], leg_candidates[k].key[2]), "votes")

\* C16 as amended: the lists are sorted in non-increasing order of their
\* ranking field; adjacent entries may have equal ranking values.
C16_NonIncreasingRanking ==
    /\ PresidentialDone =>
          \A k \in DOMAIN presidential :
              presidential[k].value.round_1 # Nothing =>
                  NonIncreasing(presidential[k].value.round_1[1], "percentage")
    /\ LegislativeDone =>
          \A k \in DOMAIN leg_candidates :
              LET insee_code == leg_candidates[k].key[1]
                  round_name == leg_candidates[k].key[2]
                  ranked == Ranked(insee_code, round_name)
              IN /\ NonIncreasing(ranked, "votes")
                 /\ DictHas(legislative, insee_code)
                 /\ DictGet(legislative, insee_code)[round_name]
                        = Some([i \in DOMAIN ranked |-> Stored(ranked[i])])

\* a first-round legislative list of four whose first two candidates both
\* have 300 votes, the row holding them as its second and fourth candidates
C16_Witness ==
    /\ LegislativeDone
    /\ DictHas(leg_candidates, <<"44001", "round_1">>)
    /\ LET ranked == Ranked("44001", "round_1")
       IN /\ Len(ranked) = 4
          /\ ranked[1].votes = 300 /\ ranked[2].votes = 300
          /\ ranked[3].votes = 200 /\ ranked[4].votes = 100

(***************************************************************************)
(* Claims on download_municipal_2020                                       *)
(***************************************************************************)
\* a row of the region whose counts parse, with expressed votes above zero
MunRowCounts(row) ==
    /\ row.code_departement \in DEPARTMENTS
    /\ ParseInt(row.voix) # Nothing
    /\ ParseInt(row.exprimes) # Nothing
    /\ ParseInt(row.exprimes)[1] > 0

\* C17: if a commune has at least one second-round row with a parseable vote
\* count and expressed votes above zero, the result stored for it is the
\* second round's, whatever first-round rows it had.
C17_RoundTwoWins ==
    MunicipalDone =>
        \A j \in DOMAIN election_files.municipal :
            LET row == election_files.municipal[j]
                insee_code == row.code_departement \o row.code_commune
            IN (row.round = 2 /\ MunRowCounts(row)) =>
                  /\ DictHas(municipal, insee_code)
                  /\ DictGet(municipal, insee_code).round = 2

(***************************************************************************)
(* Claims on download_legislative_2024                                     *)
(***************************************************************************)
\* the rows of a round that store a list for a commune
StoringRows(insee_code, round_name) ==
    SelectSeq(RoundFile(election_files.legislative, round_name),
              LAMBDA row : /\ LegRowUsable(row)
                           /\ row.code_commune = insee_code
                           /\ ExtractCandidates(row, ParseInt(row.exprimes)[1]).candidates # <<>>)

Count(s, x) == Cardinality({i \in DOMAIN s : s[i] = x})

Min(a, b) == IF a < b THEN a ELSE b

\* C18: the legislative download keeps the top candidates by vote count: a
\* round_2 list holds at most 2 candidates and a round_1 list at most 4,
\* exactly min(N, number of candidates extracted from the row), and every
\* stored candidate has at least as many votes as every extracted candidate
\* of the row that is not stored.
C18_TopByVotes ==
    LegislativeDone =>
        \A k \in DOMAIN legislative : \A round_name \in {"round_1", "round_2"} :
            LET insee_code == legislative[k].key
                list == legislative[k].value[round_name]
                rows == StoringRows(insee_code, round_name)
                row == rows[Len(rows)]
                extracted == ExtractCandidates(row, ParseInt(row.exprimes)[1]).candidates
                sorted == DictGet(leg_candidates, <<insee_code, round_name>>)
                n == IF round_name = "round_2" THEN 2 ELSE 4
            IN list # Nothing =>
                  /\ rows # <<>>
                  /\ Len(list[1]) = Min(n, Len(extracted))
                  /\ Len(sorted) = Len(extracted)
                  /\ \A i \in DOMAIN extracted : Count(sorted, extracted[i]) = Count(extracted, extracted[i])
                  /\ \A i \in DOMAIN list[1] : list[1][i] = Stored(sorted[i])
                  /\ \A i \in DOMAIN list[1] : \A j \in DOMAIN sorted :
                        j > Len(list[1]) => sorted[i].votes >= sorted[j].votes

\* a second-round row with three candidates of which the two with the most
\* votes are stored, and a first-round row with five of which four are
C18_Witness ==
    /\ LegislativeDone
    /\ DictHas(legislative, "44001")
    /\ DictGet(legislative, "44001").round_2 # Nothing
    /\ DictGet(legislative, "44001").round_1 # Nothing
    /\ Len(DictGet(legislative, "44001").round_2[1]) = 2
    /\ Len(DictGet(leg_candidates, <<"44001", "round_2">>)) = 3
    /\ Len(DictGet(legislative, "44001").round_1[1]) = 4
    /\ Len(DictGet(leg_candidates, <<"44001", "round_1">>)) = 5

\* an empty name or an empty vote count
IsEmptySlot(slot) == slot.nom = <<>> \/ slot.voix = <<>>

\* k: the number of the first empty group of a row
FirstEmpty(row) ==
    CHOOSE k \in 1..(Len(row.slots) + row.more + 1) :
        /\ IsEmptySlot(SlotAt(row, k))
        /\ \A n \in 1..(k - 1) : ~IsEmptySlot(SlotAt(row, n))

\* C19: the wide-format extraction stops at the first empty slot: with k the
\* first slot whose name or vote count is empty, every slot below k that
\* holds an integer vote count yields exactly one candidate, in slot order,
\* no slot at or after k yields one, and no slot beyond 300 is examined.
C19_StopsAtFirstEmpty ==
    LegislativeDone =>
        \A j \in DOMAIN election_files.legislative :
            LET row == election_files.legislative[j]
                total_exprimes == ParseInt(row.exprimes)[1]
                result == ExtractCandidates(row, total_exprimes)
                last == Min(FirstEmpty(row) - 1, 300)
                yielding == SelectSeq([n \in 1..last |-> SlotAt(row, n)],
                                      LAMBDA slot : ParseInt(slot.voix) # Nothing)
            IN LegRowUsable(row) =>
                  /\ result.candidates =
                        [i \in DOMAIN yielding |->
                            LegCandidate(yielding[i], ParseInt(yielding[i].voix)[1], total_exprimes)]
                  /\ result.examined <= FirstEmpty(row)
                  /\ result.examined <= 300
                  /\ \E i \in DOMAIN RoundFile(election_files.legislative, row.round) :
                        RoundFile(election_files.legislative, row.round)[i] = row

\* a row whose groups 1, 2 and 3 are filled and whose group 4 is empty, from
\* which three candidates came, next to a row with 401 filled groups, from
\* which 300 came
C19_Witness ==
    /\ LegislativeDone
    /\ \E j \in DOMAIN election_files.legislative :
          LET row == election_files.legislative[j]
          IN /\ row.round = "round_2" /\ LegRowUsable(row) /\ FirstEmpty(row) = 4
             /\ Len(DictGet(leg_candidates, <<row.code_commune, "round_2">>)) = 3
    /\ \E j \in DOMAIN election_files.legislative :
          LET row == election_files.legislative[j]
          IN /\ row.more = 400 /\ LegRowUsable(row)
             /\ Len(DictGet(leg_candidates, <<row.code_commune, row.round>>)) = 300

(***************************************************************************)
(* Claims on merge_political_data                                          *)
(***************************************************************************)
\* C20: when merge_political_data attaches a party to a mayor from the
\* municipal result of the commune, a code found in PARTY_LABELS is replaced
\* by its label and a code the table lacks is kept as it is: a non-empty
\* party code is never dropped nor replaced by a placeholder.
C20_PartyCodeKept ==
    ppc = "done" =>
        \A insee_code \in DOMAIN political_data :
            LET entry == political_data[insee_code]
                party_code == DictGet(municipal, insee_code).party
            IN (DictHas(mayors, insee_code) /\ DictHas(municipal, insee_code)
                    /\ party_code # Nothing /\ party_code # Some("")) =>
                  /\ entry.mayor # Nothing
                  /\ entry.mayor[1].party =
                        Some(IF \E i \in DOMAIN PARTY_LABELS : PARTY_LABELS[i].key = party_code[1]
                             THEN PARTY_LABELS[CHOOSE i \in DOMAIN PARTY_LABELS :
                                                   PARTY_LABELS[i].key = party_code[1]].value
                             ELSE party_code[1])

\* a mayor whose commune's code LDVD became 'Divers droite' and a mayor whose
\* commune's code LZZ, absent from the table, was kept
C20_Witness ==
    /\ ppc = "done"
    /\ "44001" \in DOMAIN political_data /\ "44002" \in DOMAIN political_data
    /\ political_data["44001"].mayor # Nothing
    /\ political_data["44001"].mayor[1].party = Some("Divers droite")
    /\ DictGet(municipal, "44001").party = Some("LDVD")
    /\ political_data["44002"].mayor # Nothing
    /\ political_data["44002"].mayor[1].party = Some("LZZ")

(***************************************************************************)
(* Claims on the keys and the coverage of political_data                   *)
(***************************************************************************)
WrittenPolitical == ppc = "done"

\* C21: every key of the merged political_data is a five-character INSEE
\* code; a row whose codes do not give one never creates an entry.
C21_KeysFiveDigits ==
    WrittenPolitical => \A insee_code \in DOMAIN political_data : Len(insee_code) = 5

\* C26: every INSEE code that is a key of mayors, municipal_2020,
\* presidential_2022 or legislative_2024 has an entry in political_data, and
\* the entry's sub-record of a table that lacks the code is null.
C26_EverySourceCodeMerged ==
    WrittenPolitical =>
        \A insee_code \in DictKeys(mayors) \cup DictKeys(municipal)
                           \cup DictKeys(presidential) \cup DictKeys(legislative) :
            /\ insee_code \in DOMAIN political_data
            /\ ~DictHas(mayors, insee_code) => political_data[insee_code].mayor = Nothing
            /\ ~DictHas(municipal, insee_code) => political_data[insee_code].municipal_2020 = Nothing
            /\ ~DictHas(presidential, insee_code) => political_data[insee_code].presidential_2022 = Nothing
            /\ ~DictHas(legislative, insee_code) => political_data[insee_code].legislative_2024 = Nothing

(***************************************************************************)
(* download_data.download_annuaire: the filter of the directory rows to    *)
(* the general curriculum, then save_and_merge.                            *)
(***************************************************************************)
MaxAnnuaire == 2

PROFESSIONNEL == <<"P", "R", "O", "F", "E", "S", "S", "I", "O", "N", "N", "E", "L">>

\* a directory record: its UAI under record.fields, the texts the filter
\* searches ('' and None both read as ''), ecole_elementaire and the two
\* track fields (None, 0 or 1)
AnnuaireRow(uai, type_etab, libelle_nature, nom, elementaire, voie_generale, voie_pro) ==
    [ flat_key |-> None, nested_key |-> uai, type_etablissement |-> type_etab,
      libelle_nature |-> libelle_nature, nom_etablissement |-> nom,
      ecole_elementaire |-> elementaire, voie_generale |-> voie_generale,
      voie_professionnelle |-> voie_pro ]

\* the rows a region may return: lycées with and without the professional
\* marker in their nature or their name and with every state of the track
\* fields, a lycée known by its nature only, a school, a pre-school, a collège
AnnuaireRows ==
    LET Lycee == <<"L", "y", "c", "é", "e">>
        general == <<"L", "Y", "C", "E", "E", " ", "G", "T">>
        hugo == <<"L", "y", "c", "é", "e", " ", "H", "u", "g", "o">>
    IN { AnnuaireRow("L1", Lycee, general, hugo, Nothing, Some(1), Some(0)),
         AnnuaireRow("L2", Lycee, <<"L", "y", "c", "é", "e", " ">> \o Lower(PROFESSIONNEL), hugo,
                     Nothing, Some(1), Some(1)),
         AnnuaireRow("L3", Lycee, general, <<"L", "P", " ">> \o Lower(PROFESSIONNEL) \o <<" ", "H", "u", "g", "o">>,
                     Nothing, Nothing, Nothing),
         AnnuaireRow("L4", Lycee, general, <<"L", "y", "c", "é", "e", " ">> \o PROFESSIONNEL,
                     Nothing, Some(1), Nothing),
         AnnuaireRow("L5", <<>>, general, hugo, Nothing, Nothing, Nothing),
         AnnuaireRow("L6", Lycee, general, hugo, Nothing, Some(0), Some(1)),
         AnnuaireRow("L7", Lycee, general, hugo, Nothing, Nothing, Some(1)),
         AnnuaireRow("L8", Lycee, general, hugo, Nothing, Some(0), Nothing),
         AnnuaireRow("E1", <<"E", "c", "o", "l", "e">>, <<>>, <<"E", "c", "o", "l", "e">>, Some(1), Nothing, Nothing),
         AnnuaireRow("E2", <<"E", "c", "o", "l", "e">>, <<>>, <<"M", "a", "t">>, Nothing, Nothing, Nothing),
         AnnuaireRow("C1", <<"C", "o", "l", "l", "è", "g", "e">>, <<>>, <<"C", "l", "g">>, Nothing, Nothing, Nothing) }

\* the branch of the if/elif chain that a record takes (lines 150-161)
AnnuaireBranch(fields) ==
    IF Contains(fields.type_etablissement, <<"E", "c", "o", "l", "e">>)
       \/ Contains(Upper(fields.libelle_nature), <<"E", "C", "O", "L", "E">>)
    THEN "ecole"
    ELSE IF Contains(fields.type_etablissement, <<"C", "o", "l", "l", "è", "g", "e">>)
            \/ Contains(Upper(fields.libelle_nature), <<"C", "O", "L", "L", "E", "G", "E">>)
    THEN "college"
    ELSE IF Contains(fields.type_etablissement, <<"L", "y", "c", "é", "e">>)
            \/ Contains(Upper(fields.libelle_nature), <<"L", "Y", "C", "E", "E">>)
    THEN "lycee"
    ELSE "other"

\* a marker read in the nature label only
ProfessionalByNature(fields) == Contains(Upper(fields.libelle_nature), PROFESSIONNEL)

\* 'PROFESSIONNEL' in libelle_nature.upper() or 'professionnel' in school_name.lower()
Professional(fields) ==
    \/ Contains(Upper(fields.libelle_nature), PROFESSIONNEL)
    \/ Contains(Lower(fields.nom_etablissement), Lower(PROFESSIONNEL))

\* `if voie_generale:` on None, 0 or 1
TruthyTrack(v) == v # Nothing /\ v # Some(0)

\* whether the loop body appends the record to filtered_records
AnnuaireKeeps(fields) ==
    LET branch == AnnuaireBranch(fields)
    IN IF branch = "ecole" THEN fields.ecole_elementaire = Some(1)
       ELSE IF branch = "college" THEN TRUE
       ELSE IF branch = "lycee"
       THEN IF Professional(fields) THEN FALSE
            ELSE IF TruthyTrack(fields.voie_generale) THEN TRUE
            ELSE fields.voie_generale = Nothing /\ fields.voie_professionnelle = Nothing
       ELSE FALSE

\* records = fetch_paginated_data(...); filtered_records = []
InitAnnuaire ==
    /\ dataset = "download_annuaire"
    /\ records \in SeqsUpTo(AnnuaireRows, MaxAnnuaire)
    /\ idx = 0
    /\ school_records = <<>>
    /\ dpc = "filter"
    /\ StoreIdle /\ FetchIdle /\ MergeIdle /\ PolIdle

\* one iteration of `for record in records:`
AFilterRow ==
    /\ dpc = "filter"
    /\ idx < Len(records)
    /\ school_records' = IF AnnuaireKeeps(records[idx + 1])
                         THEN Append(school_records, records[idx + 1])
                         ELSE school_records
    /\ idx' = idx + 1
    /\ UNCHANGED <<dataset, records, dpc, storeVars, fetchVars, mergeVars, polVars>>

\* combined = save_and_merge("annuaire_pays_loire.json", all_filtered_records, ...)
ASave ==
    /\ dpc = "filter"
    /\ idx = Len(records)
    /\ module' = "download_data"
    /\ existing_records' = persisted
    /\ new_records' = school_records
    /\ persisted' = SaveAndMerge("download_data", persisted, school_records)
    /\ combined' = persisted'
    /\ once' = persisted'
    /\ file' = Some(Dump(persisted'))
    /\ calls' = 1
    /\ dpc' = "done"
    /\ UNCHANGED <<dataset, records, idx, school_records, wpc, fetchVars, mergeVars, polVars>>

NextAnnuaire == AFilterRow \/ ASave

SpecAnnuaire == InitAnnuaire /\ [][NextAnnuaire]_vars

NewestOf(uai) ==
    {i \in 1..idx : /\ records[i].nested_key = uai
                    /\ \A j \in 1..idx : records[j].nested_key = uai =>
                                            ~StrGT(records[j].year, records[i].year)}

Earliest(S) == CHOOSE i \in S : \A j \in S : i <= j

Latest(S) == CHOOSE i \in S : \A j \in S : i >= j

\* C24 as stated: among the rows of a key that carry its greatest year, the
\* one that came last is the one held (a candidate of the held year replaces
\* the held row).
C24_CandidateWinsTies ==
    \A k \in DOMAIN school_records :
        school_records[k].value = StoredFor(dataset, records[Latest(NewestOf(school_records[k].key))])

\* C24 amended: among the rows of a key that carry its greatest year, the
\* one that came first is the one held (a candidate of the held year does
\* not replace the held row; only a strictly greater year does).
C24_HeldWinsTies ==
    \A k \in DOMAIN school_records :
        school_records[k].value = StoredFor(dataset, records[Earliest(NewestOf(school_records[k].key))])

\* a pass that met two different rows of school A for 2023 and holds the first
C24_Witness ==
    /\ dpc = "save"
    /\ \E i, j \in DOMAIN records :
          /\ i < j
          /\ records[i].nested_key = "A" /\ records[j].nested_key = "A"
          /\ records[i].year = <<2, 0, 2, 3>> /\ records[j].year = <<2, 0, 2, 3>>
          /\ records[i].id # records[j].id
          /\ DictGet(school_records, "A").id = records[i].id

(***************************************************************************)
(* Repeated runs of a most-recent-wins download on one store file: each    *)
(* run fetches what the source returns that day (all the rows, or the      *)
(* pages received before a transport error), reconciles and saves.         *)
(***************************************************************************)
MaxRunRows == 2

\* records = fetch_paginated_data(...) of one run
DFetchRun ==
    /\ dpc = "fetch"
    /\ \E rows \in SeqsUpTo(FetchedRows, MaxRunRows) : records' = rows
    /\ idx' = 0
    /\ school_records' = <<>>
    /\ dpc' = "reconcile"
    /\ UNCHANGED <<dataset, storeVars, fetchVars, mergeVars, polVars>>

\* the script is run again: the download function starts over, the store
\* file is as the last run left it
DRunAgain ==
    /\ dpc = "done"
    /\ records' = <<>>
    /\ idx' = 0
    /\ school_records' = <<>>
    /\ dpc' = "fetch"
    /\ UNCHANGED <<dataset, storeVars, fetchVars, mergeVars, polVars>>

NextRuns == DFetchRun \/ DReconcileRow \/ DLoopEnd \/ DSave \/ DRunAgain

SpecRuns == InitDownload /\ [][NextRuns]_vars

\* C25: a run never replaces the persisted record of a key by a record of a
\* smaller year: for every key of the file as the run found it, the file as
\* the run left it holds a record whose year is not smaller.
C25_YearNeverDecreases ==
    dpc = "done" =>
        \A i \in DOMAIN existing_records : \A j \in DOMAIN persisted :
            KeyOf(module, existing_records[i]) = KeyOf(module, persisted[j]) =>
                ~StrGT(existing_records[i].year, persisted[j].year)

(***************************************************************************)
(* save_and_merge, statement by statement: the file is loaded and merged   *)
(* in memory, opened for writing (which empties it), written chunk by      *)
(* chunk by json.dump and closed.  The process may be stopped while the    *)
(* file is open.                                                           *)
(***************************************************************************)
MaxWrites == 2

InitWrite ==
    /\ module = "download_data"
    /\ persisted = load_or_create_missing
    /\ existing_records = <<>>
    /\ new_records = <<>>
    /\ combined = <<>>
    /\ calls = 0
    /\ once = <<>>
    /\ file = Nothing
    /\ wpc = "idle"
    /\ DownloadIdle /\ FetchIdle /\ MergeIdle /\ PolIdle

\* lines 48-70: load_or_create, the merge by key, open(filepath, 'w')
WBegin ==
    /\ wpc = "idle"
    /\ calls < MaxWrites
    /\ \E batch \in SeqsUpTo(StoreRecords, MaxBatch) :
          /\ existing_records' = load_or_create(file)
          /\ new_records' = batch
          /\ combined' = SaveAndMerge(module, load_or_create(file), batch)
    /\ file' = Some(<<>>)
    /\ wpc' = "dump"
    /\ UNCHANGED <<module, persisted, calls, once, downloadVars, fetchVars, mergeVars, polVars>>

\* line 71: json.dump writes the next chunk
WWriteChunk ==
    /\ wpc = "dump"
    /\ Len(file[1]) < Len(Dump(combined))
    /\ file' = Some(Append(file[1], Dump(combined)[Len(file[1]) + 1]))
    /\ UNCHANGED <<module, persisted, existing_records, new_records, combined, calls, once, wpc,
                   downloadVars, fetchVars, mergeVars, polVars>>

\* the with block ends: the file is closed, the call returns combined
WClose ==
    /\ wpc = "dump"
    /\ file[1] = Dump(combined)
    /\ persisted' = combined
    /\ once' = IF calls = 0 THEN combined ELSE once
    /\ calls' = calls + 1
    /\ wpc' = "idle"
    /\ UNCHANGED <<module, existing_records, new_records, combined, file,
                   downloadVars, fetchVars, mergeVars, polVars>>

\* the process is stopped while the file is open; the file stays as it is
WStop ==
    /\ wpc = "dump"
    /\ wpc' = "stopped"
    /\ UNCHANGED <<module, persisted, existing_records, new_records, combined, calls, once, file,
                   downloadVars, fetchVars, mergeVars, polVars>>

NextWrite == WBegin \/ WWriteChunk \/ WClose \/ WStop

SpecWrite == InitWrite /\ [][NextWrite]_vars

\* C23: at every point before, during and after a call, a stop of the
\* process included, the store file (once it exists) parses as JSON and holds
\* either the complete contents the call found or the complete contents the
\* call returns.
C23_NeverPartial ==
    file # Nothing =>
        /\ Parseable(file[1])
        /\ Parse(file[1]) = existing_records \/ Parse(file[1]) = combined

(***************************************************************************)
(* download_municipal_2020 on a first-round file whose lists are less than *)
(* a tenth of a point apart.                                               *)
(***************************************************************************)
\* four lists of commune 44001 with 30.03 %, 30.04 %, 30.06 % and 30.09 % of
\* 10000 expressed votes, and a list of commune 44002
CloseRows ==
    { MunRow(1, "44", "001", "Liste A", "LDVD", Str(3004), Str(10000)),
      MunRow(1, "44", "001", "Liste B", "LSOC", Str(3003), Str(10000)),
      MunRow(1, "44", "001", "Liste C", "LDVG", Str(3006), Str(10000)),
      MunRow(1, "44", "001", "Liste D", "LREM", Str(3009), Str(10000)),
      MunRow(1, "44", "002", "Liste E", "LDVG", Str(50), Str(100)) }

\* main() after steps 1 and 2, the municipal file holding close lists
InitClose ==
    /\ election_files \in
          { [NoElectionFiles EXCEPT !.municipal = rows] : rows \in SeqsUpTo(CloseRows, MaxElectionRows) }
    /\ mayors = download_mayors(MayorsFile)
    /\ insee_mapping = <<>>
    /\ municipal = <<>>
    /\ presidential = <<>>
    /\ legislative = <<>>
    /\ leg_candidates = <<>>
    /\ political_data = <<>>
    /\ ppc = "municipal"
    /\ StoreIdle /\ DownloadIdle /\ FetchIdle /\ MergeIdle

SpecClose == InitClose /\ [][NextPolitical]_vars

\* the rows of a commune that download_municipal_2020 takes into account
CountedRowsOf(insee_code) ==
    SelectSeq(election_files.municipal,
              LAMBDA row : MunRowCounts(row) /\ row.code_departement \o row.code_commune = insee_code)

\* votes/expressed of row a is at least that of row b
RatioGE(a, b) ==
    ParseInt(a.voix)[1] * ParseInt(b.exprimes)[1] >= ParseInt(b.voix)[1] * ParseInt(a.exprimes)[1]

\* C29: for a commune whose counted rows all belong to one round, the stored
\* winning_list is the list of a row whose votes/expressed ratio is the
\* greatest of those rows, whatever the order of the rows.
C29_WinnerHasMaxRatio ==
    MunicipalDone =>
        \A k \in DOMAIN municipal :
            LET rows == CountedRowsOf(municipal[k].key)
            IN (\A i, j \in DOMAIN rows : rows[i].round = rows[j].round) =>
                  \E i \in DOMAIN rows :
                      /\ municipal[k].value.winning_list =
                            (IF rows[i].liste = "" THEN "Liste inconnue" ELSE rows[i].liste)
                      /\ \A j \in DOMAIN rows : RatioGE(rows[i], rows[j])

====
